---- MODULE Spec2Model ----
(***************************************************************************)
(* Model of the fisheye reprojection code (DefisheyeAlgorithm) and of the  *)
(* parameter validation in config.py.                                      *)
(*                                                                         *)
(* Floating-point values are modelled in fixed point: a real x is the      *)
(* nearest integer to x * FINE, with reserved values for the IEEE results  *)
(* +inf, -inf, NaN and -0.0 and for magnitudes beyond the grid.            *)
(***************************************************************************)
EXTENDS Integers, Sequences, FiniteSets, TLC

\* ---------------------------------------------------------------- numbers
\* The element of a one-element set.  {e : v \in {a}} computes a once and
\* names it v in e, as an assignment to a local variable does.
Val(S) == CHOOSE r \in S : TRUE

Abs(a) == IF a < 0 THEN 0 - a ELSE a
Sign(a) == IF a < 0 THEN 0 - 1 ELSE IF a = 0 THEN 0 ELSE 1
Min(a, b) == IF a <= b THEN a ELSE b
Max(a, b) == IF a >= b THEN a ELSE b

\* Quotient rounded toward zero, and to the nearest integer (b > 0).
TruncDiv(a, b) == Sign(a) * Sign(b) * (Abs(a) \div Abs(b))
RoundDiv(a, b) == (2 * a + b) \div (2 * b)

\* Fixed-point unit of the treadmill programs: 1.0 is SCALE.
SCALE == 10 * 100

\* Fixed-point unit of the projector's floats: 1.0 is FINE.  A float is a
\* multiple of 1/FINE of magnitude at most 2000 (Limit), or one of
\*   NaN, PInf, NInf    the IEEE values,
\*   PHuge, NHuge       a finite value too large for the grid (tan(pi/2) is
\*                      1.6e16 in doubles, not infinity),
\*   PTiny, NTiny       a non-zero value too small for the grid (sin(pi) is
\*                      1.2e-16), which keeps its sign and is no zero divisor,
\*   NZero              the IEEE -0.0 (0 is +0.0).
FINE == 1000 * 1000
Limit == 2000 * FINE
PHuge == 2100 * FINE
NHuge == 0 - PHuge
PTiny == 2110 * FINE
NTiny == 0 - PTiny
NZero == 0 - 2120 * FINE
PInf == 2140 * FINE
NInf == 0 - PInf
NaN == 2147 * FINE

\* pi * FINE, and the grid's pi/2: the double nearest to pi/2.
PI == 3141593
HalfPi == RoundDiv(PI, 2)

IsFinite(a) == a \notin {PInf, NInf, NaN}

\* The size class of a float, and its sign bit (that of NaN is not used).
Kind(a) ==
  IF a = NaN THEN "nan"
  ELSE IF a \in {PInf, NInf} THEN "inf"
  ELSE IF a \in {PHuge, NHuge} THEN "huge"
  ELSE IF a \in {PTiny, NTiny} THEN "tiny"
  ELSE IF a \in {0, NZero} THEN "zero"
  ELSE "num"
SignBit(a) == IF a < 0 THEN 0 - 1 ELSE 1

\* The float of class k and sign s (and magnitude m on the grid).
Float(k, s, m) ==
  IF k = "nan" THEN NaN
  ELSE IF k = "inf" THEN (IF s > 0 THEN PInf ELSE NInf)
  ELSE IF k = "huge" THEN (IF s > 0 THEN PHuge ELSE NHuge)
  ELSE IF k = "tiny" THEN (IF s > 0 THEN PTiny ELSE NTiny)
  ELSE IF k = "zero" THEN (IF s > 0 THEN 0 ELSE NZero)
  ELSE s * m

\* A magnitude the grid holds, or PHuge / PTiny when it is beyond it.
Magnitude(r) == IF r > Limit THEN PHuge ELSE IF r = 0 THEN PTiny ELSE r
Signed(s, m) == IF s < 0 THEN 0 - m ELSE m

\* a * b / FINE for grid magnitudes a, b > 0, rounded to the nearest grid
\* point, formed from the halves of a and b so that no product leaves 32 bits.
MulMag(a, b) ==
  Val({IF b1 > 0 /\ a1 > Limit \div b1 THEN PHuge
       ELSE Val({Magnitude(a1 * b1 + x \div 1000 + y \div 1000
                           + (((x % 1000) + (y % 1000)) * 1000 + a0 * b0 + 500000)
                               \div 1000000) :
                 x \in {a1 * b0}, y \in {a0 * b1}}) :
       a1 \in {a \div 1000}, a0 \in {a % 1000},
       b1 \in {b \div 1000}, b0 \in {b % 1000}})

\* The next k decimal digits of r / b after acc, then rounded to nearest.
RECURSIVE Digits(_, _, _, _)
Digits(r0, b, k, acc0) ==
  Val({IF k = 0 THEN acc + (IF 2 * r >= b THEN 1 ELSE 0)
       ELSE Digits((r * 10) % b, b, k - 1, acc * 10 + (r * 10) \div b) :
       r \in {r0}, acc \in {acc0}})

\* a * FINE / b for grid magnitudes a, b > 0, by long division.
RECURSIVE DivMag(_, _)
DivMag(a0, b0) ==
  Val({IF b > 200 * FINE THEN DivMag(a \div 10, b \div 10)
       ELSE IF a \div b > Limit \div FINE THEN PHuge
       ELSE Magnitude(Digits(a % b, b, 6, a \div b)) :
       a \in {a0}, b \in {b0}})

\* IEEE negation, addition, multiplication and division.
FNeg(a) ==
  IF a = NaN THEN NaN ELSE IF a = 0 THEN NZero ELSE IF a = NZero THEN 0 ELSE 0 - a

FAdd(x, y) ==
  Val({IF ka = "num" /\ kb = "num"
         THEN (IF a > 0 /\ b > Limit - a THEN PHuge
               ELSE IF a < 0 /\ b < 0 - Limit - a THEN NHuge
               ELSE a + b)
       ELSE IF ka = "nan" \/ kb = "nan" THEN NaN
       ELSE IF ka = "inf" THEN (IF kb = "inf" /\ a # b THEN NaN ELSE a)
       ELSE IF kb = "inf" THEN b
       ELSE IF ka = "huge" THEN (IF kb = "huge" /\ a # b THEN NaN ELSE a)
       ELSE IF kb = "huge" THEN b
       ELSE IF ka = "zero" /\ kb = "zero"
         THEN (IF a = NZero /\ b = NZero THEN NZero ELSE 0)
       ELSE IF ka = "zero" THEN b
       ELSE IF kb = "zero" THEN a
       ELSE IF ka = "tiny" /\ kb = "tiny" THEN (IF a = b THEN a ELSE NaN)
       ELSE IF ka = "tiny" THEN b
       ELSE a :
       ka \in {Kind(x)}, kb \in {Kind(y)}, a \in {x}, b \in {y}})

\* The product of a huge and a tiny value has no place on the grid (NaN
\* here); the code forms none.
FMul(x, y) ==
  Val({IF ka = "num" /\ kb = "num" THEN Signed(s, MulMag(Abs(a), Abs(b)))
       ELSE IF ka = "nan" \/ kb = "nan" THEN NaN
       ELSE IF ka = "inf" \/ kb = "inf"
         THEN (IF ka = "zero" \/ kb = "zero" THEN NaN ELSE Float("inf", s, 0))
       ELSE IF ka = "zero" \/ kb = "zero" THEN Float("zero", s, 0)
       ELSE IF {ka, kb} = {"huge", "tiny"} THEN NaN
       ELSE IF ka = "huge" \/ kb = "huge" THEN Float("huge", s, 0)
       ELSE Float("tiny", s, 0) :
       ka \in {Kind(x)}, kb \in {Kind(y)}, a \in {x}, b \in {y},
       s \in {SignBit(x) * SignBit(y)}})

\* numpy division: x/0 is +-inf, 0/0 is NaN (a RuntimeWarning, no exception).
FDiv(x, y) ==
  Val({IF ka = "num" /\ kb = "num" THEN Signed(s, DivMag(Abs(a), Abs(b)))
       ELSE IF ka = "nan" \/ kb = "nan" THEN NaN
       ELSE IF ka = "inf" THEN (IF kb = "inf" THEN NaN ELSE Float("inf", s, 0))
       ELSE IF kb = "inf" THEN Float("zero", s, 0)
       ELSE IF kb = "zero" THEN (IF ka = "zero" THEN NaN ELSE Float("inf", s, 0))
       ELSE IF ka = "zero" THEN Float("zero", s, 0)
       ELSE IF ka = kb THEN NaN
       ELSE IF ka = "huge" \/ kb = "tiny" THEN Float("huge", s, 0)
       ELSE Float("tiny", s, 0) :
       ka \in {Kind(x)}, kb \in {Kind(y)}, a \in {x}, b \in {y},
       s \in {SignBit(x) * SignBit(y)}})

\* A Python int as a float.
FromInt(n) == n * FINE

\* numpy.sqrt, by Newton's iteration from above.
RECURSIVE SqrtIter(_, _)
SqrtIter(a, y0) ==
  Val({Val({IF z >= y THEN y ELSE SqrtIter(a, z) :
            z \in {(y + DivMag(a, y)) \div 2}}) : y \in {y0}})

sqrt(x) ==
  Val({IF a = NaN \/ (a < 0 /\ a # NZero) THEN NaN
       ELSE IF Kind(a) # "num" THEN a
       ELSE SqrtIter(a, (1 + CHOOSE r \in 0..45 : r * r <= a \div FINE
                                                  /\ (r + 1) * (r + 1) > a \div FINE)
                        * FINE) :
       a \in {x}})

\* numpy.hypot of two integer offsets.
hypot(xd, yd) == sqrt(FromInt(xd * xd + yd * yd))

\* angle * pi / d in radians, for an angle in degrees.
Radians(deg, d) == Sign(deg) * RoundDiv(Abs(deg) * PI, d)

\* a * b / FINE and a * FINE / b for magnitudes with the result on the grid
\* (0 when it is below it).
Times(a, b) == Val({IF m \in {PHuge, PTiny} THEN 0 ELSE m : m \in {MulMag(a, b)}})
Quot(a, b) == Val({IF m \in {PHuge, PTiny} THEN 0 ELSE m : m \in {DivMag(a, b)}})

\* sin and cos on [0, pi/4] by their Taylor polynomials.
SinPoly(a) ==
  Val({Val({Val({Val({Val({Times(x, t1) :
    t1 \in {FINE - Times(x2, t3) \div 6}}) :
    t3 \in {FINE - Times(x2, t5) \div 20}}) :
    t5 \in {FINE - Times(x2, t7) \div 42}}) :
    t7 \in {FINE - x2 \div 72}}) :
    x \in {a}, x2 \in {Times(a, a)}})

CosPoly(a) ==
  Val({Val({Val({Val({Val({FINE - Times(x2, t2) \div 2 :
    t2 \in {FINE - Times(x2, t4) \div 12}}) :
    t4 \in {FINE - Times(x2, t6) \div 30}}) :
    t6 \in {FINE - Times(x2, t8) \div 56}}) :
    t8 \in {FINE - x2 \div 90}}) :
    x2 \in {Times(a, a)}})

\* numpy.sin: the angle reduced to [0, pi/2] by periodicity and symmetry.
\* At the grid's pi the double's sine is 1.2e-16.
sin(x) ==
  Val({IF Kind(a) \in {"nan", "inf", "huge"} THEN NaN
       ELSE IF Kind(a) \in {"zero", "tiny"} THEN a
       ELSE Val({
         IF m = PI THEN Signed(SignBit(a), PTiny)
         ELSE Val({Val({IF m >= PI THEN 0 - s ELSE s :
                        s \in {Min(FINE, IF 4 * q <= PI THEN SinPoly(q)
                                         ELSE CosPoly(HalfPi - q))}}) :
                   q \in {Val({IF h > HalfPi THEN PI - h ELSE h :
                               h \in {IF m >= PI THEN m - PI ELSE m}})}}) :
         m \in {a % (2 * PI)}}) :
       a \in {x}})

\* At the grid's pi/2 the double's cosine is 6.1e-17.
cos(x) ==
  Val({IF Kind(a) \in {"nan", "inf", "huge"} THEN NaN
       ELSE IF Kind(a) \in {"zero", "tiny"} THEN FINE
       ELSE IF Abs(a) = HalfPi THEN PTiny
       ELSE sin(Abs(a) + HalfPi) :
       a \in {x}})

\* numpy.tan.  At the grid's pi/2 the double's tangent is 1.6e16: finite.
tan(x) ==
  Val({IF Kind(a) \in {"nan", "inf", "huge"} THEN NaN
       ELSE IF Kind(a) \in {"zero", "tiny"} THEN a
       ELSE IF a = HalfPi THEN PHuge
       ELSE IF a = 0 - HalfPi THEN NHuge
       ELSE FDiv(sin(a), cos(a)) :
       a \in {x}})

\* arctan on [0, tan(pi/8)] by its Taylor polynomial.
AtanPoly(a) ==
  Val({Val({Val({Val({Val({Val({Val({Times(y, t1) :
    t1 \in {FINE - Times(y2, t3)}}) :
    t3 \in {FINE \div 3 - Times(y2, t5)}}) :
    t5 \in {FINE \div 5 - Times(y2, t7)}}) :
    t7 \in {FINE \div 7 - Times(y2, t9)}}) :
    t9 \in {FINE \div 9 - Times(y2, t11)}}) :
    t11 \in {FINE \div 11 - Times(y2, FINE \div 13 - Times(y2, FINE \div 15))}}) :
    y \in {a}, y2 \in {Times(a, a)}})

\* arctan on [0, 1]: beyond tan(pi/8), pi/4 - arctan((1 - a) / (1 + a)).
TanPi8 == 414214
AtanUnit(x) ==
  Val({IF a = 0 THEN 0
       ELSE IF a <= TanPi8 THEN AtanPoly(a)
       ELSE RoundDiv(PI, 4) - AtanPoly(Quot(FINE - a, FINE + a)) :
       a \in {x}})

\* numpy.arctan
arctan(x) ==
  Val({IF Kind(a) = "nan" THEN NaN
       ELSE IF Kind(a) \in {"zero", "tiny"} THEN a
       ELSE IF Kind(a) \in {"inf", "huge"} THEN SignBit(a) * HalfPi
       ELSE Signed(SignBit(a),
                   IF Abs(a) <= FINE THEN AtanUnit(Abs(a))
                   ELSE HalfPi - AtanUnit(Quot(FINE, Abs(a)))) :
       a \in {x}})


\* ------------------------------------------------------------ Python values
\* None where a number is expected.
NoneV == 0 - 7777

\* vkwargs of DefisheyeAlgorithm.__init__: the allow-list and the defaults.
vkwargs ==
  [fov |-> 180, pfov |-> 120, xcenter |-> NoneV, ycenter |-> NoneV,
   radius |-> NoneV, pad |-> 0, angle |-> 0, dtype |-> "equalarea",
   format |-> "fullframe"]

\* Python's a // b on integers (b > 0): floor division.
FloorDiv(a, b) == a \div b

\* Length of the Python slice [start:stop] of a sequence of n elements.
SliceStart(start, n) == IF start < 0 THEN Max(start + n, 0) ELSE Min(start, n)
SliceLen(start, stop, n) == Max(SliceStart(stop, n) - SliceStart(start, n), 0)

\* --------------------------------------------------------------- the inputs
\* Largest side of a source image, largest padding.
MaxSide == 3
MaxPad == 2

\* Channels of a colour image as cv2.imread returns it.
Channels == 3

\* Pixel (x, y) of the source image: a fixed pattern with no zero in it.
SrcPixel(x, y) == 1 + ((53 * x + 101 * y + 17) % 255)

\* infile arguments: None, a value of another type, a path (readable as an
\* image or not), a colour array (empty when a side is 0), a 2-D grey array.
Infiles ==
  {[type |-> "NoneType", readable |-> FALSE, ndim |-> 0, w |-> 0, h |-> 0],
   [type |-> "list", readable |-> FALSE, ndim |-> 0, w |-> 0, h |-> 0],
   [type |-> "str", readable |-> FALSE, ndim |-> 0, w |-> 0, h |-> 0]}
  \cup {[type |-> "str", readable |-> TRUE, ndim |-> 3, w |-> s, h |-> s] :
          s \in 1..MaxSide}
  \cup {[type |-> "ndarray", readable |-> TRUE, ndim |-> 3, w |-> a, h |-> b] :
          a \in 0..MaxSide, b \in 0..MaxSide}
  \cup {[type |-> "ndarray", readable |-> TRUE, ndim |-> 2, w |-> 2, h |-> 2]}

\* A usable image: a readable path or a non-empty colour array.
UsableImage(f) ==
  /\ f.type \in {"str", "ndarray"}
  /\ f.readable /\ f.ndim = 3
  /\ f.w >= 1 /\ f.h >= 1

\* The pixels of a w x h image, row by row.
ImageOf(w, h) == [y \in 1..h |-> [x \in 1..w |-> SrcPixel(x - 1, y - 1)]]

\* cv2.imread: the image, or None when the file cannot be read as an image.
imread(f) ==
  IF f.readable THEN [isNone |-> FALSE, ndim |-> 3, w |-> f.w, h |-> f.h,
                      rows |-> ImageOf(f.w, f.h)]
  ELSE [isNone |-> TRUE, ndim |-> 0, w |-> 0, h |-> 0, rows |-> <<>>]

\* copyMakeBorder padding the top and the left only.
copyMakeBorder_topLeft(img, p) ==
  [img EXCEPT !.w = img.w + p, !.h = img.h + p,
     !.rows = [y \in 1..(img.h + p) |-> [x \in 1..(img.w + p) |->
                 IF x - p \in 1..img.w /\ y - p \in 1..img.h
                 THEN img.rows[y - p][x - p] ELSE 0]]]

\* cv2.copyMakeBorder(img, p, p, p, p, BORDER_CONSTANT): p zero pixels on
\* every side.
copyMakeBorder(img, p) ==
  [img EXCEPT !.w = img.w + 2 * p, !.h = img.h + 2 * p,
     !.rows = [y \in 1..(img.h + 2 * p) |-> [x \in 1..(img.w + 2 * p) |->
                 IF x - p \in 1..img.w /\ y - p \in 1..img.h
                 THEN img.rows[y - p][x - p] ELSE 0]]]

\* numpy's _image[y0:yf, x0:xf, :] on an h x w x c array.
SliceImage(img, y0, yf, x0, xf) ==
  LET nh == SliceLen(y0, yf, img.h)
      nw == SliceLen(x0, xf, img.w)
      oy == SliceStart(y0, img.h)
      ox == SliceStart(x0, img.w)
  IN [img EXCEPT !.w = nw, !.h = nh,
        !.rows = [y \in 1..nh |-> [x \in 1..nw |-> img.rows[oy + y][ox + x]]]]

\* --------------------------------------------------------------- _start_att
\* _start_att whose second loop runs over every key of vkwargs (rkeys without
\* "- pin"), so that the defaults overwrite what was supplied.
_start_att_defaultsWin(vk, kw) ==
  IF \E k \in DOMAIN kw : k \notin DOMAIN vk
  THEN [raised |-> "NameError", attrs |-> <<>>]
  ELSE [raised |-> "none", attrs |-> [k \in DOMAIN vk |-> vk[k]]]

\* DefisheyeAlgorithm._start_att: NameError on a key outside vkwargs, else
\* every attribute from kwargs when given and from vkwargs otherwise.
_start_att(vk, kw) ==
  IF \E k \in DOMAIN kw : k \notin DOMAIN vk
  THEN [raised |-> "NameError", attrs |-> <<>>]
  ELSE [raised |-> "none",
        attrs |-> [k \in DOMAIN vk |-> IF k \in DOMAIN kw THEN kw[k] ELSE vk[k]]]

\* The object before __init__ has run.  loaded: the image was read or taken;
\* mapped: _map has assigned source coordinates (xs, ys); resampled: remap
\* has run.  A handler that raises leaves pc = "failed" (__init__) or
\* "convert_failed" (convert) and the exception in err.
NoObject ==
  [pc |-> "new", err |-> "none", loaded |-> FALSE, attrs |-> <<>>,
   width |-> 0, height |-> 0, channels |-> 0, image |-> <<>>,
   dim |-> 0, mapped |-> FALSE, resampled |-> FALSE,
   rdmask |-> <<>>, xs |-> <<>>, ys |-> <<>>, img |-> <<>>,
   outw |-> 0, outh |-> 0, outc |-> 0]

Raise(o, e) ==
  [o EXCEPT !.pc = IF o.pc = "new" THEN "failed" ELSE "convert_failed", !.err = e]

\* ----------------------------------------------------------------- __init__
\* The centred crop window [c - dim // 2, c + dim // 2) of a side of n pixels.
CropStart(n, dim) == FloorDiv(n, 2) - FloorDiv(dim, 2)
CropStop(n, dim) == FloorDiv(n, 2) + FloorDiv(dim, 2)

\* The centre used when xcenter / ycenter is None.
DefaultCenter(side) == FloorDiv(side - 1, 2)

\* DefisheyeAlgorithm.__init__(infile, **kwargs): the object it leaves, with
\* pc = "constructed", or pc = "failed" and the exception in err.
__init__(infile, kw) ==
  LET sa == _start_att(vkwargs, kw)
      o0 == [NoObject EXCEPT !.attrs = sa.attrs]
  IN
  IF sa.raised # "none" THEN Raise(NoObject, sa.raised)
  ELSE IF infile.type \notin {"str", "ndarray"}
    THEN Raise(o0, "Exception: Image format not recognized")
  ELSE
    LET im0 == IF infile.type = "str" THEN imread(infile)
               ELSE [isNone |-> FALSE, ndim |-> infile.ndim, w |-> infile.w,
                     h |-> infile.h, rows |-> ImageOf(infile.w, infile.h)]
        o1 == [o0 EXCEPT !.loaded = TRUE]
        pad == sa.attrs.pad
    IN
    IF pad = NoneV THEN Raise(o1, "TypeError")
    ELSE IF pad > 0 /\ im0.isNone THEN Raise(o1, "cv2.error")
    ELSE
      LET im1 == IF pad > 0 THEN copyMakeBorder(im0, pad) ELSE im0 IN
      IF im1.isNone THEN Raise(o1, "AttributeError")
      ELSE IF im1.ndim < 3 THEN Raise(o1, "IndexError")
      ELSE
        LET width == im1.w
            height == im1.h
            dim == Min(width, height)
            x0 == CropStart(width, dim)
            xf == CropStop(width, dim)
            y0 == CropStart(height, dim)
            yf == CropStop(height, dim)
            image == SliceImage(im1, y0, yf, x0, xf)
            xc == IF sa.attrs.xcenter = NoneV THEN DefaultCenter(image.w)
                  ELSE sa.attrs.xcenter
            yc == IF sa.attrs.ycenter = NoneV THEN DefaultCenter(image.h)
                  ELSE sa.attrs.ycenter
        IN [o1 EXCEPT !.pc = "constructed",
                      !.image = image.rows,
                      !.width = image.w,
                      !.height = image.h,
                      !.channels = Channels,
                      !.attrs = [sa.attrs EXCEPT !.xcenter = xc, !.ycenter = yc]]

\* ------------------------------------------------------------- _map, convert
\* arange including its end point.
arange_inclusive(n) == 0..n

\* numpy.arange(n): 0, 1, ..., n - 1.
arange(n) == 0..(n - 1)

\* A centre offset turned by a quarter when an angle is set.
Offset_rotated(a, i, j) ==
  IF a.angle \in {NoneV, 0} THEN <<i - a.xcenter, j - a.ycenter>>
  ELSE <<a.ycenter - j, i - a.xcenter>>

\* (xd, yd): the offset of pixel (i, j) from the optical centre.
Offset(a, i, j) == <<i - a.xcenter, j - a.ycenter>>

\* ifoc and rr of one projection model at incident angle phi. dim is a record
\* [v, np]: its value and whether it is a numpy float (sqrt's result) or a
\* plain Python number, whose division by zero raises.  "unbound" when no
\* branch assigns rr.  The linear ifoc, dim * 180 / (fov * pi), is formed as
\* dim / (fov * pi / 180), which stays on the grid.
Radial(dtype, fov, dim, phi) ==
  IF dtype = "linear" THEN
    IF fov * PI = 0 /\ ~dim.np THEN [raised |-> "ZeroDivisionError", rr |-> NaN]
    ELSE [raised |-> "none", rr |-> FMul(FDiv(dim.v, Radians(fov, 180)), phi)]
  ELSE IF dtype = "equalarea" THEN
    [raised |-> "none",
     rr |-> FMul(FDiv(dim.v, FMul(2 * FINE, sin(Radians(fov, 720)))),
                 sin(FDiv(phi, 2 * FINE)))]
  ELSE IF dtype = "orthographic" THEN
    [raised |-> "none",
     rr |-> FMul(FDiv(dim.v, FMul(2 * FINE, sin(Radians(fov, 360)))),
                 sin(phi))]
  ELSE IF dtype = "stereographic" THEN
    [raised |-> "none",
     rr |-> FMul(FDiv(dim.v, FMul(2 * FINE, tan(Radians(fov, 720)))),
                 tan(FDiv(phi, 2 * FINE)))]
  ELSE [raised |-> "UnboundLocalError", rr |-> NaN]

\* The source coordinate with the centre pixel mapped to the centre.
SourceCoord_center(rr, rd, d, center) ==
  IF rd # 0 THEN FAdd(FMul(FDiv(rr, rd), FromInt(d)), FromInt(center))
  ELSE FromInt(center)

\* The source coordinate of one pixel: 0 where rd = 0 (rdmask false), else
\* (rr / rd) * d + center.
SourceCoord(rr, rd, d, center) ==
  IF rd # 0 THEN FAdd(FMul(FDiv(rr, rd), FromInt(d)), FromInt(center)) ELSE 0

\* numpy computes an array once, when it is built: Array(f) is f with its
\* elements evaluated.
Array(f0) == CHOOSE f \in {f0} : f = f

\* One pixel of _map: its rdmask entry and its source coordinate.
MapPixel(a, ofocinv, dim, i, j) ==
  Val({Val({[rdmask |-> rd # 0,
             xs |-> SourceCoord(rr, rd, Offset(a, i, j)[1], a.xcenter),
             ys |-> SourceCoord(rr, rd, Offset(a, i, j)[2], a.ycenter)] :
            rr \in {Radial(a.dtype, a.fov, dim, arctan(FMul(ofocinv, rd))).rr}}) :
       rd \in {hypot(Offset(a, i, j)[1], Offset(a, i, j)[2])}})

\* DefisheyeAlgorithm._map(i, j, ofocinv, dim) on the meshgrid of is and js:
\* rdmask and the source coordinates (xs, ys), each indexed by pixel <<i, j>>.
_map(o, is, js, ofocinv0, dim) ==
  Val({IF probe.raised # "none"
       THEN [raised |-> probe.raised, rdmask |-> <<>>, xs |-> <<>>, ys |-> <<>>]
       ELSE Val({[raised |-> "none",
                  rdmask |-> [ij \in DOMAIN cells |-> cells[ij].rdmask],
                  xs |-> Array([ij \in DOMAIN cells |-> cells[ij].xs]),
                  ys |-> Array([ij \in DOMAIN cells |-> cells[ij].ys])] :
                 cells \in {Array([ij \in is \X js |->
                              MapPixel(o.attrs, ofocinv, dim, ij[1], ij[2])])}}) :
       probe \in {Radial(o.attrs.dtype, o.attrs.fov, dim, 0)},
       ofocinv \in {ofocinv0}})

\* cv2.remap(image, xs, ys, INTER_LINEAR), constant zero border: coordinates
\* are rounded to 1/32 pixel and the four neighbours weighted bilinearly.
InterTab == 32

\* A replicated border (BORDER_REPLICATE): the nearest pixel of the image.
PixelAt_replicate(image, w, h, x, y) ==
  IF w = 0 \/ h = 0 THEN 0
  ELSE image[Min(Max(y, 0), h - 1) + 1][Min(Max(x, 0), w - 1) + 1]

PixelAt(image, w, h, x, y) ==
  IF x \in 0..(w - 1) /\ y \in 0..(h - 1) THEN image[y + 1][x + 1] ELSE 0

\* A coordinate in 1/32 pixel, saturated to the 16-bit pixel index remap
\* works with.  nanAs: what the build's float-to-int conversion makes of NaN
\* ("min": the smallest int, far outside the image; "zero": 0).
Subpixel(c, nanAs) ==
  IF c = NaN THEN (IF nanAs = "zero" THEN 0 ELSE 0 - 32768 * InterTab)
  ELSE IF c \in {PInf, PHuge} THEN 32767 * InterTab
  ELSE IF c \in {NInf, NHuge} THEN 0 - 32768 * InterTab
  ELSE IF Kind(c) \in {"zero", "tiny"} THEN 0
  ELSE (c \div FINE) * InterTab + RoundDiv((c % FINE) * InterTab, FINE)

Bilinear(image, w, h, cx, cy, nanAs) ==
  LET sx == Subpixel(cx, nanAs)
      sy == Subpixel(cy, nanAs)
      x0 == sx \div InterTab
      y0 == sy \div InterTab
      fx == sx % InterTab
      fy == sy % InterTab
      sum == (InterTab - fx) * (InterTab - fy) * PixelAt(image, w, h, x0, y0)
             + fx * (InterTab - fy) * PixelAt(image, w, h, x0 + 1, y0)
             + (InterTab - fx) * fy * PixelAt(image, w, h, x0, y0 + 1)
             + fx * fy * PixelAt(image, w, h, x0 + 1, y0 + 1)
  IN RoundDiv(sum, InterTab * InterTab)

remap(image, w, h, xs, ys, nanAs) ==
  [ij \in DOMAIN xs |-> Bilinear(image, w, h, xs[ij], ys[ij], nanAs)]

\* The normalisation diameter convert computes first: "unbound" when format
\* is neither value and no radius overrides it.
ConvertDim(o) ==
  LET a == o.attrs
      d0 == IF a.format = "circular"
              THEN [bound |-> TRUE, np |-> FALSE, v |-> FromInt(Min(o.width, o.height))]
            ELSE IF a.format = "fullframe"
              THEN [bound |-> TRUE, np |-> TRUE,
                    v |-> sqrt(FromInt(o.width * o.width + o.height * o.height))]
            ELSE [bound |-> FALSE, np |-> FALSE, v |-> 0]
  IN IF a.radius # NoneV
     THEN [bound |-> TRUE, np |-> FALSE, v |-> FromInt(2 * a.radius)]
     ELSE d0

\* ofocinv = 1.0 / ofoc, ofoc = dim / (2 * tan(pfov * pi / 360))
Ofocinv(dimv, pfov) ==
  FDiv(FINE, FDiv(dimv, FMul(2 * FINE, tan(Radians(pfov, 360)))))

HasNaN(m) == \E ij \in DOMAIN m : m[ij] = NaN

\* convert, lines 109-130: dim, ofocinv, the grid and _map.  The locals dim,
\* rdmask, xs and ys are kept in the record; an exception ends the call.
convert_map(o) ==
  Val({IF ~dim.bound THEN Raise(o, "UnboundLocalError")
       ELSE Val({
         IF m.raised # "none" THEN Raise([o EXCEPT !.dim = dim.v], m.raised)
         ELSE [o EXCEPT !.dim = dim.v, !.rdmask = m.rdmask, !.xs = m.xs,
                        !.ys = m.ys, !.mapped = TRUE] :
         m \in {_map(o, arange(o.width), arange(o.height),
                     Ofocinv(dim.v, o.attrs.pfov), dim)}}) :
       dim \in {ConvertDim(o)}})

\* convert, lines 132-135, after convert_map: img = cv2.remap(self._image,
\* xs, ys, INTER_LINEAR), a new array that is returned; image is the pixels
\* self._image holds when remap reads them.
convert_remap(o, image, nanAs) ==
  IF o.pc # "constructed" THEN o
  \* remap refuses an empty map
  ELSE IF arange(o.width) = {} \/ arange(o.height) = {} THEN Raise(o, "cv2.error")
  ELSE Val({[o EXCEPT !.pc = "converted", !.resampled = TRUE,
                      !.img = img,
                      !.outw = Cardinality({ij[1] : ij \in DOMAIN img}),
                      !.outh = Cardinality({ij[2] : ij \in DOMAIN img}),
                      !.outc = o.channels] :
            img \in {remap(image, o.width, o.height, o.xs, o.ys, nanAs)}})

\* DefisheyeAlgorithm.convert(outfile=None) on a constructed object.
convert(o, nanAs) ==
  Val({convert_remap(m, o.image, nanAs) : m \in {convert_map(o)}})

\* ------------------------------------------------------------ validate_params
\* VALIDATION_CONFIG (radius_range's upper end is infinity and is not read)
fov_range == <<0, 180>>
pfov_range == <<0, 180>>
angle_range == <<0, 360>>
radius_range_lo == 0
pad_range == <<0, 1000>>
valid_dtypes == {"linear", "equalarea", "orthographic", "stereographic"}
valid_formats == {"fullframe", "circular"}

\* dict.get(key, default)
Get(params, k, default) == IF k \in DOMAIN params THEN params[k] ELSE default

\* A range check that leaves out both end points.
InRange_strict(v, range) == range[1] < v /\ v < range[2]

InRange(v, range) == range[1] <= v /\ v <= range[2]

\* validate_params(params): the list of error messages; a comparison of None
\* with a number raises TypeError.
validate_params(params) ==
  LET fov == Get(params, "fov", 180)
      pfov == Get(params, "pfov", 140)
      angle == Get(params, "angle", 0)
      radius == Get(params, "radius", NoneV)
      pad == Get(params, "pad", 0)
      dtype == Get(params, "dtype", "stereographic")
      format == Get(params, "format", "fullframe")
  IN
  IF fov = NoneV \/ pfov = NoneV \/ pad = NoneV
  THEN [called |-> TRUE, raised |-> "TypeError", errors |-> <<>>]
  ELSE
   [called |-> TRUE, raised |-> "none",
    errors |->
      (IF ~InRange(fov, fov_range) THEN <<"FOV deve estar entre 0 e 180">> ELSE <<>>)
      \o (IF ~InRange(pfov, pfov_range) THEN <<"PFOV deve estar entre 0 e 180">> ELSE <<>>)
      \o (IF angle # NoneV /\ angle # 0 - 1 /\ ~InRange(angle, angle_range)
          THEN <<"Angle deve estar entre 0 e 360">> ELSE <<>>)
      \o (IF radius # NoneV /\ radius # 0 - 1 /\ radius < radius_range_lo
          THEN <<"Radius deve ser maior que 0">> ELSE <<>>)
      \o (IF ~InRange(pad, pad_range) THEN <<"Pad deve estar entre 0 e 1000">> ELSE <<>>)
      \o (IF dtype \notin valid_dtypes
          THEN <<"Dtype deve ser um dos: linear, equalarea, orthographic, stereographic">>
          ELSE <<>>)
      \o (IF format \notin valid_formats
          THEN <<"Format deve ser um dos: fullframe, circular">> ELSE <<>>)]

NotValidated == [called |-> FALSE, raised |-> "none", errors |-> <<>>]

\* ------------------------------------------------------- the keyword arguments
FovVals == {0 - 10, 0, 90, 200}
PfovVals == {0 - 10, 0, 90, 180, 190}
CenterVals == {NoneV, 0, 1, 9}
RadiusVals == {NoneV, 0 - 2, 0 - 1, 0, 2}
PadVals == {NoneV, 0 - 1} \cup 0..MaxPad
AngleVals == {NoneV, 0 - 1, 90, 400}
DtypeVals == {"linear", "orthographic", "stereographic", "bogus"}
FormatVals == {"circular", "bogus"}

\* One keyword argument; "zoom" is a key outside the allow-list.
OneKey ==
  {("fov" :> v) : v \in FovVals} \cup {("pfov" :> v) : v \in PfovVals}
  \cup {("xcenter" :> v) : v \in CenterVals} \cup {("ycenter" :> v) : v \in CenterVals}
  \cup {("radius" :> v) : v \in RadiusVals} \cup {("pad" :> v) : v \in PadVals}
  \cup {("angle" :> v) : v \in AngleVals} \cup {("dtype" :> v) : v \in DtypeVals}
  \cup {("format" :> v) : v \in FormatVals} \cup {("zoom" :> 2)}

\* Calls with no, one or two keyword arguments.
Kwargs ==
  {<<>>} \cup OneKey
  \cup {fg[1] @@ fg[2] :
          fg \in {pr \in OneKey \X OneKey : DOMAIN pr[1] # DOMAIN pr[2]}}

\* kw with key k set to v.
WithKey(kw, k, v) == (k :> v) @@ kw

\* The dictionaries given to validate_params: those calls, and the ones with
\* a fov or pfov of None, alone or with one other key.
ValidateKwargs ==
  Kwargs
  \cup {WithKey(kk[2], kk[1], NoneV) :
          kk \in {pr \in {"fov", "pfov"} \X ({<<>>} \cup OneKey) :
                   pr[1] \notin DOMAIN pr[2]}}

\* The calls that differ from kw in angle alone, and in pad alone.
AngleTwins(kw) == {kw} \cup {WithKey(kw, "angle", v) : v \in {NoneV, 0, 90}}
PadTwins(kw) == {WithKey(kw, "pad", v) : v \in 0..MaxPad}

\* ------------------------------------------------------------ the state machine
Proj == {1, 2}

VARIABLES
  infile,    \* the infile argument the projectors are constructed from
  kwargs,    \* kwargs[p]: the keyword arguments of projector p
  proj,      \* proj[p]: the DefisheyeAlgorithm object p
  nanAs,     \* how this build converts a NaN coordinate, once it has shown
  validation, \* the result of validate_params(kwargs[1])
  again,     \* again[p]: the calls of convert begun on projector p
  prev,      \* prev[p]: what the calls of convert on projector p returned, in order
  heap,      \* the pixel arrays alive, by name: the caller's and the projectors'
  view,      \* view[p]: the window of a heap array that self._image of p is
  frame,     \* frame[p]: the call of convert projector p is in, with its locals
  program,   \* the treadmill program that runs: "main.py", "main_gui.py" or "none"
  now,       \* time.time(), in milliseconds
  calc,      \* the SpeedCalculator of main.py
  gcalc,     \* the SpeedCalculator of main_gui.py
  log,       \* the calls made on the calculator so far, with what they returned
  running,   \* main_gui.py: the calls on the calculator its two threads are in
  settings,  \* main_gui.py: the distance and line position of the settings dialog
  radial,    \* one pixel's incident angle and its radius under the four models
  tracker,   \* main_gui.py: the GUI's is_running and cap, and its worker threads
  app        \* the integrated GUI: its parameter variables, image and output

vars == <<infile, kwargs, proj, nanAs, validation, again, prev, heap, view, frame,
          program, now, calc, gcalc, log, running, settings, radial, tracker, app>>

\* The variables of the projector's repeated calls, and of the treadmill.
repeatVars == <<again, prev, heap, view, frame>>
treadmillVars == <<program, now, calc, gcalc, log, running, settings>>

\* No repeated call yet; no treadmill program running.
NoRepeat ==
  /\ again = [p \in Proj |-> 0] /\ prev = [p \in Proj |-> <<>>]
  /\ heap = <<>> /\ view = <<>> /\ frame = <<>>
NoTreadmill ==
  /\ program = "none" /\ now = 0 /\ calc = <<>> /\ gcalc = <<>> /\ log = <<>>
  /\ running = <<>> /\ settings = <<>>
NoRadial == radial = <<>>

\* The variables of the two GUIs; neither GUI running.
guiVars == <<tracker, app>>
NoGui == tracker = <<>> /\ app = <<>>

Absent == [NoObject EXCEPT !.pc = "absent"]

Usable(f, kw) ==
  \* an empty array is not padded here: what copyMakeBorder makes of one is
  \* the library's business
  ~(f.type = "ndarray" /\ (f.w = 0 \/ f.h = 0) /\ "pad" \in DOMAIN kw /\ kw["pad"] > 0)

Init ==
  /\ infile \in Infiles
  /\ \E kw \in Kwargs : Usable(infile, kw) /\ kwargs = [p \in Proj |-> kw]
  /\ proj = [p \in Proj |-> IF p = 1 THEN NoObject ELSE Absent]
  /\ nanAs = "unknown"
  /\ validation = NotValidated
  /\ NoRepeat /\ NoTreadmill /\ NoRadial /\ NoGui

\* Two projectors on the same infile whose calls differ in angle alone.
InitAngle ==
  /\ infile \in {f \in Infiles : f.type = "ndarray" => UsableImage(f)}
  /\ \E kw \in {<<>>} \cup OneKey : \E kw2 \in AngleTwins(kw) :
       kwargs = [p \in Proj |-> IF p = 1 THEN kw ELSE kw2]
  /\ proj = [p \in Proj |-> NoObject]
  /\ nanAs = "unknown"
  /\ validation = NotValidated
  /\ NoRepeat /\ NoTreadmill /\ NoRadial /\ NoGui

\* Two projectors on the same infile whose calls differ in pad alone.
InitPad ==
  /\ infile \in Infiles
  /\ \E kw \in Kwargs : \E kw2 \in PadTwins(kw) :
       /\ Usable(infile, kw) /\ Usable(infile, kw2)
       /\ kwargs = [p \in Proj |-> IF p = 1 THEN kw ELSE kw2]
  /\ proj = [p \in Proj |-> NoObject]
  /\ nanAs = "unknown"
  /\ validation = NotValidated
  /\ NoRepeat /\ NoTreadmill /\ NoRadial /\ NoGui

\* A parameter dictionary about to be validated; no projector yet.
InitValidate ==
  /\ infile \in {f \in Infiles : f.type = "NoneType"}
  /\ \E kw \in ValidateKwargs : kwargs = [p \in Proj |-> kw]
  /\ proj = [p \in Proj |-> Absent]
  /\ nanAs = "unknown"
  /\ validation = NotValidated
  /\ NoRepeat /\ NoTreadmill /\ NoRadial /\ NoGui

\* defisheye = DefisheyeAlgorithm(infile, **kwargs)
Construct(p) ==
  /\ proj[p].pc = "new"
  /\ proj' = [proj EXCEPT ![p] = __init__(infile, kwargs[p])]
  /\ UNCHANGED <<infile, kwargs, nanAs, validation, repeatVars, treadmillVars, radial, guiVars>>

\* defisheye.convert()
Convert(p) ==
  /\ proj[p].pc = "constructed"
  /\ \E first \in {IF nanAs = "unknown" THEN "min" ELSE nanAs} :
     \E o \in {convert(proj[p], first)} :
     \E nan \in {o.pc = "converted" /\ (HasNaN(o.xs) \/ HasNaN(o.ys))} :
     \E n \in (IF nan /\ nanAs = "unknown" THEN {"min", "zero"} ELSE {first}) :
       /\ proj' = [proj EXCEPT ![p] = IF n = first THEN o ELSE convert(proj[p], n)]
       /\ nanAs' = IF nan THEN n ELSE nanAs
  /\ UNCHANGED <<infile, kwargs, validation, repeatVars, treadmillVars, radial, guiVars>>

\* errors = validate_params(params)
ValidateParams ==
  /\ ~validation.called
  /\ validation' = validate_params(kwargs[1])
  /\ UNCHANGED <<infile, kwargs, proj, nanAs, repeatVars, treadmillVars, radial, guiVars>>

Next == \E p \in Proj : Construct(p) \/ Convert(p)

NextConstruct == \E p \in Proj : Construct(p)

NextValidate == ValidateParams

Spec == Init /\ [][Next]_vars

SpecAngle == InitAngle /\ [][Next]_vars

SpecPad == InitPad /\ [][NextConstruct]_vars

SpecValidate == InitValidate /\ [][NextValidate]_vars

\* ------------------------------------------------------------------ properties
Constructed(p) == proj[p].pc \in {"constructed", "converted", "convert_failed"}
ConvertReturned(p) == proj[p].pc \in {"converted", "convert_failed"}
HasBadKey(kw) == \E k \in DOMAIN kw : k \notin DOMAIN vkwargs
Grid(o) == arange(o.width) \X arange(o.height)

\* C1 (as claimed): for every source image W0 x H0 (W0, H0 >= 1) and pad >= 0
\* the working image is square with side min(W0 + 2*pad, H0 + 2*pad), for odd
\* as for even values of that minimum.
C1_WorkingSideIsMin ==
  \A p \in Proj :
    (Constructed(p) /\ infile.w >= 1 /\ infile.h >= 1 /\ proj[p].attrs.pad >= 0)
    => /\ proj[p].width = proj[p].height
       /\ proj[p].width = Min(infile.w + 2 * proj[p].attrs.pad,
                              infile.h + 2 * proj[p].attrs.pad)

\* C2 (as claimed): with xcenter / ycenter not supplied (or None) the centre
\* is the true centre of the square: 2 * x_center = width_work - 1 and
\* 2 * y_center = height_work - 1.
C2_DefaultCenterIsTrueCenter ==
  \A p \in Proj :
    (Constructed(p) /\ UsableImage(infile) /\ proj[p].width >= 1) =>
      /\ Get(kwargs[p], "xcenter", NoneV) = NoneV
           => 2 * proj[p].attrs.xcenter = proj[p].width - 1
      /\ Get(kwargs[p], "ycenter", NoneV) = NoneV
           => 2 * proj[p].attrs.ycenter = proj[p].height - 1

\* C3 (as claimed): convert fails with a configuration error, before any
\* coordinate is mapped or any pixel resampled, for every dtype outside the
\* four models and every format outside {fullframe, circular}, whatever the
\* other parameters (radius included); for a recognised pair it raises no
\* configuration error.
C3_UnknownEnumsFailFast ==
  \A p \in Proj :
    (ConvertReturned(p) /\ UsableImage(infile) /\ proj[p].width >= 1) =>
      LET o == proj[p] IN
      IF o.attrs.dtype \in valid_dtypes /\ o.attrs.format \in valid_formats
      THEN o.err # "UnboundLocalError"
      ELSE /\ o.pc = "convert_failed"
           /\ o.err = "UnboundLocalError"
           /\ ~o.mapped /\ ~o.resampled

\* C4 (as claimed): construction fails with "Image format not recognized"
\* for every input that is not a usable image (None, another type, an empty
\* buffer, an unreadable path), and with valid keys that is the only error
\* construction raises.
C4_OnlyInvalidInputError ==
  \A p \in Proj :
    (proj[p].pc \notin {"new", "absent"} /\ ~HasBadKey(kwargs[p])) =>
      /\ ~UsableImage(infile)
           => /\ proj[p].pc = "failed"
              /\ proj[p].err = "Exception: Image format not recognized"
      /\ proj[p].pc = "failed"
           => proj[p].err = "Exception: Image format not recognized"

\* The NameError half of C5: a key outside the allow-list raises NameError
\* before the image is loaded, and nothing else raises NameError.
C5_NameErrorFirst(p) ==
  proj[p].pc \notin {"new", "absent"} =>
    /\ HasBadKey(kwargs[p]) <=> proj[p].err = "NameError"
    /\ HasBadKey(kwargs[p]) => proj[p].pc = "failed" /\ ~proj[p].loaded

\* C5 (as claimed): ... and after construction each of the nine attributes
\* holds the supplied value (an explicit None included) if its key was given
\* and its default otherwise.
C5_Original ==
  \A p \in Proj :
    /\ C5_NameErrorFirst(p)
    /\ (Constructed(p) /\ UsableImage(infile) /\ proj[p].width >= 1) =>
         \A k \in DOMAIN vkwargs :
           proj[p].attrs[k] = Get(kwargs[p], k, vkwargs[k])

\* C5 (amended): a key outside the allow-list raises NameError before the
\* image is loaded; after construction the seven attributes other than
\* xcenter / ycenter hold the supplied value (an explicit None included) or
\* the default, and xcenter / ycenter hold the supplied value when it is not
\* None and (width - 1) // 2, (height - 1) // 2 otherwise.
C5_AllowListAndAttributes ==
  \A p \in Proj :
    /\ C5_NameErrorFirst(p)
    /\ Constructed(p) =>
         /\ \A k \in DOMAIN vkwargs \ {"xcenter", "ycenter"} :
              proj[p].attrs[k] = Get(kwargs[p], k, vkwargs[k])
         /\ proj[p].attrs.xcenter =
              (IF Get(kwargs[p], "xcenter", NoneV) = NoneV
               THEN FloorDiv(proj[p].width - 1, 2) ELSE kwargs[p]["xcenter"])
         /\ proj[p].attrs.ycenter =
              (IF Get(kwargs[p], "ycenter", NoneV) = NoneV
               THEN FloorDiv(proj[p].height - 1, 2) ELSE kwargs[p]["ycenter"])

\* C5 witness: a constructed projector given an explicit None (angle) and no
\* xcenter, whose centre was resolved.
C5_Witness ==
  /\ Constructed(1)
  /\ "angle" \in DOMAIN kwargs[1] /\ kwargs[1]["angle"] = NoneV
  /\ proj[1].attrs.angle = NoneV
  /\ "xcenter" \notin DOMAIN kwargs[1]
  /\ proj[1].attrs.xcenter # NoneV

\* C6 (as claimed): validate_params returns at least one error whenever
\* fov <= 0 or pfov <= 0, and whenever either exceeds 180.
C6_DegenerateFovRejected ==
  (validation.called /\ validation.raised = "none") =>
    LET fov == Get(kwargs[1], "fov", 180)
        pfov == Get(kwargs[1], "pfov", 140)
    IN (fov <= 0 \/ pfov <= 0 \/ fov > 180 \/ pfov > 180)
         => Len(validation.errors) >= 1

\* The pixels of projector p's grid that take the rd = 0 fallback.
FallbackPixels(p) ==
  {ij \in Grid(proj[p]) : ~proj[p].rdmask[ij]}

\* C7: in the coordinate map a pixel takes the fallback exactly when its
\* offset from the centre is (0, 0); it then has (xs, ys) = (0, 0) and the
\* output there is the working image's top-left pixel; every other pixel has
\* (xs, ys) = ((rr/rd)*xd + x_center, (rr/rd)*yd + y_center).  With the
\* default centre exactly one pixel of an output image takes the fallback,
\* with a centre outside the grid none does.
C7_CoordinateMap ==
  \A p \in Proj :
    proj[p].mapped =>
      LET o == proj[p]
          a == o.attrs
          dimv == ConvertDim(o).v
          ofocinv == Ofocinv(dimv, a.pfov)
          rd(ij) == hypot(ij[1] - a.xcenter, ij[2] - a.ycenter)
          rr(ij) == Radial(a.dtype, a.fov, ConvertDim(o),
                           arctan(FMul(ofocinv, rd(ij)))).rr
          scale(ij) == FDiv(rr(ij), rd(ij))
      IN
      /\ \A ij \in Grid(o) :
           IF ij[1] - a.xcenter = 0 /\ ij[2] - a.ycenter = 0
           THEN /\ ~o.rdmask[ij]
                /\ o.xs[ij] = 0 /\ o.ys[ij] = 0
                /\ o.pc = "converted" => o.img[ij] = o.image[1][1]
           ELSE /\ o.rdmask[ij]
                /\ o.xs[ij] =
                     FAdd(FMul(scale(ij), FromInt(ij[1] - a.xcenter)),
                          FromInt(a.xcenter))
                /\ o.ys[ij] =
                     FAdd(FMul(scale(ij), FromInt(ij[2] - a.ycenter)),
                          FromInt(a.ycenter))
      /\ (/\ o.pc = "converted"
          /\ Get(kwargs[p], "xcenter", NoneV) = NoneV
          /\ Get(kwargs[p], "ycenter", NoneV) = NoneV)
           => Cardinality(FallbackPixels(p)) = 1
      /\ (a.xcenter \notin arange(o.width) \/ a.ycenter \notin arange(o.height))
           => FallbackPixels(p) = {}

\* C7 witness: a converted image of at least 2 x 2 pixels with the default
\* centre, one fallback pixel mapped to (0, 0), whose other pixels are mapped
\* elsewhere.
C7_Witness ==
  /\ proj[1].pc = "converted"
  /\ proj[1].width >= 2
  /\ kwargs[1] = <<>>
  /\ \E ij \in FallbackPixels(1) :
       /\ proj[1].xs[ij] = 0
       /\ proj[1].img[ij] = proj[1].image[1][1]
  /\ \E ij \in Grid(proj[1]) :
       proj[1].rdmask[ij] /\ proj[1].xs[ij] > 0

\* C7 witness of the last case: a centre outside the grid, no fallback pixel.
C7_WitnessOutside ==
  /\ proj[1].pc = "converted"
  /\ proj[1].attrs.xcenter \notin arange(proj[1].width)
  /\ FallbackPixels(1) = {}

\* C8: the image convert returns has the working image's width, height and
\* channel count.
C8_DimensionsPreserved ==
  \A p \in Proj :
    proj[p].pc = "converted" =>
      /\ proj[p].outw = proj[p].width
      /\ proj[p].outh = proj[p].height
      /\ proj[p].outc = Channels
      /\ DOMAIN proj[p].img = Grid(proj[p])

\* C8 witness: a converted padded image (a working image of 4 x 4 or more).
C8_Witness ==
  /\ proj[1].pc = "converted"
  /\ proj[1].attrs.pad > 0
  /\ proj[1].outw = proj[1].width /\ proj[1].width >= 4

\* kwargs of p and q differ at most in key k.
DiffersOnlyIn(p, q, k) ==
  /\ DOMAIN kwargs[p] \ {k} = DOMAIN kwargs[q] \ {k}
  /\ \A key \in DOMAIN kwargs[p] \ {k} : kwargs[p][key] = kwargs[q][key]

\* C9: for a fixed source image, of two constructions that differ only in
\* pad, 0 <= pad1 < pad2, the second has the strictly greater working side,
\* greater by 2 * (pad2 - pad1).
C9_PadStrictlyIncreasesSide ==
  \A p, q \in Proj :
    (/\ Constructed(p) /\ Constructed(q)
     /\ DiffersOnlyIn(p, q, "pad")
     /\ 0 <= proj[p].attrs.pad /\ proj[p].attrs.pad < proj[q].attrs.pad)
    => /\ proj[q].width > proj[p].width
       /\ proj[q].width = proj[p].width + 2 * (proj[q].attrs.pad - proj[p].attrs.pad)
       /\ proj[q].height = proj[p].height + 2 * (proj[q].attrs.pad - proj[p].attrs.pad)

\* C9 witness: two projectors on one image, pad 1 and pad 2, both constructed.
C9_Witness ==
  /\ Constructed(1) /\ Constructed(2)
  /\ DiffersOnlyIn(1, 2, "pad")
  /\ proj[1].attrs.pad = 1 /\ proj[2].attrs.pad = 2
  /\ proj[2].width = proj[1].width + 2

\* C10: two calls that differ only in angle (any value, None included) end
\* construction alike (both succeed or both fail, with the same error), and
\* their converts end alike with identical coordinate maps and output images.
C10_AngleHasNoEffect ==
  DiffersOnlyIn(1, 2, "angle") =>
    /\ (proj[1].pc # "new" /\ proj[2].pc # "new")
         => /\ Constructed(1) <=> Constructed(2)
            /\ (proj[1].pc = "failed" /\ proj[2].pc = "failed")
                 => proj[1].err = proj[2].err
            /\ (Constructed(1) /\ Constructed(2))
                 => /\ proj[1].width = proj[2].width
                    /\ proj[1].height = proj[2].height
                    /\ proj[1].image = proj[2].image
                    /\ \A k \in DOMAIN vkwargs \ {"angle"} :
                         proj[1].attrs[k] = proj[2].attrs[k]
    /\ (ConvertReturned(1) /\ ConvertReturned(2))
         => /\ proj[1].pc = proj[2].pc
            /\ proj[1].err = proj[2].err
            /\ proj[1].mapped = proj[2].mapped
            /\ proj[1].mapped
                 => proj[1].xs = proj[2].xs /\ proj[1].ys = proj[2].ys
            /\ proj[1].pc = "converted" => proj[1].img = proj[2].img

\* C10 witness: both converted, one angle None and the other 90.
C10_Witness ==
  /\ DiffersOnlyIn(1, 2, "angle")
  /\ proj[1].pc = "converted" /\ proj[2].pc = "converted"
  /\ proj[1].attrs.angle = NoneV /\ proj[2].attrs.angle = 90
  /\ proj[1].width >= 2
  /\ proj[1].img = proj[2].img

\* ------------------------------------------------- convert, called repeatedly
\* Calls of convert on one projector after its first.
MaxAgain == 2

\* What a call of convert hands back to its caller: the image, or the
\* exception; with the coordinate maps it computed on the way.
Returned(o) ==
  [pc |-> o.pc, err |-> o.err, mapped |-> o.mapped, xs |-> o.xs, ys |-> o.ys,
   img |-> o.img, outw |-> o.outw, outh |-> o.outh]

\* The arrays of the heap are named: "infile" is the caller's array (infile
\* an ndarray), "p1" and "p2" the array a projector got from cv2.imread or
\* cv2.copyMakeBorder.
Buffer(p) == IF p = 1 THEN "p1" ELSE "p2"

\* The source image as the caller made it.
SourceImage(f) ==
  [isNone |-> FALSE, ndim |-> f.ndim, w |-> f.w, h |-> f.h,
   rows |-> ImageOf(f.w, f.h)]

\* The memory before a projector is constructed: the caller's array.
CallerHeap(f) == IF f.type = "ndarray" THEN ("infile" :> SourceImage(f)) ELSE <<>>

\* No working image (self._image is not assigned).
NoView == [buf |-> "none", ox |-> 0, oy |-> 0, w |-> 0, h |-> 0]

\* __init__, lines 40-48 on the memory h: the array _image names and where
\* it lives.  imread and copyMakeBorder return new arrays; _image = infile
\* (line 43) is the caller's array itself.
Loaded(f, pad, p, h) ==
  IF f.type = "str"
    THEN [buf |-> Buffer(p),
          array |-> IF pad > 0 THEN copyMakeBorder(imread(f), pad) ELSE imread(f)]
  ELSE IF pad > 0
    THEN [buf |-> Buffer(p), array |-> copyMakeBorder(h["infile"], pad)]
  ELSE [buf |-> "infile", array |-> h["infile"]]

\* Lines 50-60: self._image = _image[y0:yf, x0:xf, :] is a view, the window
\* of the array's own pixels that the slice selects.
Slice(buf, array) ==
  Val({[buf |-> buf,
        ox |-> SliceStart(CropStart(array.w, dim), array.w),
        oy |-> SliceStart(CropStart(array.h, dim), array.h),
        w |-> SliceLen(CropStart(array.w, dim), CropStop(array.w, dim), array.w),
        h |-> SliceLen(CropStart(array.h, dim), CropStop(array.h, dim), array.h)] :
       dim \in {Min(array.w, array.h)}})

\* The pixels a view shows, read from the memory h row by row.
Deref(h, v) ==
  [y \in 1..v.h |-> [x \in 1..v.w |-> h[v.buf].rows[v.oy + y][v.ox + x]]]

\* The memory h after the image img was written through the view v.
Store(h, v, img) ==
  [h EXCEPT ![v.buf].rows =
     [y \in 1..h[v.buf].h |-> [x \in 1..h[v.buf].w |->
        IF x - v.ox \in 1..v.w /\ y - v.oy \in 1..v.h
          THEN img[<<x - v.ox - 1, y - v.oy - 1>>]
          ELSE h[v.buf].rows[y][x]]]]

\* No call of convert in progress on a projector.
NoFrame == [pc |-> "idle", o |-> NoObject]

\* defisheye = DefisheyeAlgorithm(infile, **kwargs) on the shared memory:
\* the attributes as __init__ sets them, the array it loads or takes, and
\* self._image as a view of that array.
ConstructView(p) ==
  /\ proj[p].pc = "new"
  /\ \E o \in {__init__(infile, kwargs[p])} :
       /\ proj' = [proj EXCEPT ![p] = o]
       /\ IF o.pc = "constructed"
            THEN \E l \in {Loaded(infile, o.attrs.pad, p, heap)} :
                   /\ heap' = IF l.buf = "infile" THEN heap
                              ELSE (l.buf :> l.array) @@ heap
                   /\ view' = [view EXCEPT ![p] = Slice(l.buf, l.array)]
            ELSE UNCHANGED <<heap, view>>
  /\ UNCHANGED <<infile, kwargs, nanAs, validation, again, prev, frame,
                 treadmillVars, radial, guiVars>>

\* A call of convert has ended: what it returned is kept.
Return(p, o) ==
  /\ prev' = [prev EXCEPT ![p] = Append(@, Returned(o))]
  /\ frame' = [frame EXCEPT ![p] = NoFrame]

\* defisheye.convert() is called, the first time or again, and runs lines
\* 109-130 on the attributes self has now.
ConvertMap(p) ==
  /\ proj[p].pc = "constructed"
  /\ frame[p].pc = "idle"
  /\ again[p] <= MaxAgain
  /\ again' = [again EXCEPT ![p] = @ + 1]
  /\ \E o \in {convert_map(proj[p])} :
       IF o.pc = "constructed"
         THEN /\ frame' = [frame EXCEPT ![p] = [pc |-> "remap", o |-> o]]
              /\ prev' = prev
         ELSE Return(p, o)
  /\ UNCHANGED <<infile, kwargs, proj, nanAs, validation, heap, view,
                 treadmillVars, radial, guiVars>>

\* The rest of the call, lines 132-135, run by remap on image, the pixels
\* of self._image as they are in memory now.
Remap(p, image) ==
  \E first \in {IF nanAs = "unknown" THEN "min" ELSE nanAs} :
  \E o \in {convert_remap(frame[p].o, image, first)} :
  \E nan \in {o.pc = "converted" /\ (HasNaN(o.xs) \/ HasNaN(o.ys))} :
  \E n \in (IF nan /\ nanAs = "unknown" THEN {"min", "zero"} ELSE {first}) :
  \E on \in {IF n = first THEN o ELSE convert_remap(frame[p].o, image, n)} :
    /\ nanAs' = IF nan THEN n ELSE nanAs
    /\ Return(p, on)

\* convert whose remap resamples into self._image (dst = self._image): the
\* output overwrites the working image where it lives.
ConvertRemap_inPlace(p) ==
  /\ frame[p].pc = "remap"
  /\ Remap(p, Deref(heap, view[p]))
  /\ heap' = IF prev'[p][Len(prev'[p])].pc = "converted"
               THEN Store(heap, view[p], prev'[p][Len(prev'[p])].img)
               ELSE heap
  /\ UNCHANGED <<infile, kwargs, proj, validation, again, view,
                 treadmillVars, radial, guiVars>>

\* Lines 132-135: remap reads self._image through its view and returns a
\* new array; no array of the heap and no attribute is written.
ConvertRemap(p) ==
  /\ frame[p].pc = "remap"
  /\ Remap(p, Deref(heap, view[p]))
  /\ UNCHANGED <<infile, kwargs, proj, validation, again, heap, view,
                 treadmillVars, radial, guiVars>>

\* Two projectors on one source image, a file or the caller's array, each
\* with its own options.
InitRepeat ==
  /\ infile \in {f \in Infiles : f.type \in {"str", "ndarray"} /\ (f.type = "ndarray" => UsableImage(f))}
  /\ \E kw \in {<<>>} \cup OneKey :
     \E kw2 \in {("pad" :> 1), ("dtype" :> "linear")} :
       kwargs = [p \in Proj |-> IF p = 1 THEN kw ELSE kw2]
  /\ proj = [p \in Proj |-> NoObject]
  /\ nanAs = "unknown"
  /\ validation = NotValidated
  /\ again = [p \in Proj |-> 0] /\ prev = [p \in Proj |-> <<>>]
  /\ heap = CallerHeap(infile)
  /\ view = [p \in Proj |-> NoView]
  /\ frame = [p \in Proj |-> NoFrame]
  /\ NoTreadmill /\ NoRadial /\ NoGui

NextRepeat == \E p \in Proj : ConstructView(p) \/ ConvertMap(p) \/ ConvertRemap(p)

SpecRepeat == InitRepeat /\ [][NextRepeat]_vars

\* What convert returns for projector p run alone on the source image, on a
\* build that converts NaN as n.
Alone(p, n) == Returned(convert(__init__(infile, kwargs[p]), n))

\* How this build converts NaN coordinates; while no call has met one, the
\* two conversions return the same.
Build == IF nanAs = "unknown" THEN "min" ELSE nanAs

\* C11: convert keeps no state.  At every point of every interleaving of the
\* calls on two projectors that share the caller's source image, the
\* attributes of a projector (self._image, a view, among them) are those
\* construction set, the pixels of its working image and of the caller's
\* source image are unchanged, every call on a projector returned what its
\* first call returned, and every call returned what the projector returns
\* when it runs alone.
C11_ConvertKeepsNoState ==
  /\ infile.type = "ndarray" => heap["infile"] = SourceImage(infile)
  /\ \A p \in Proj :
       /\ proj[p].pc # "new" => proj[p] = __init__(infile, kwargs[p])
       /\ proj[p].pc = "constructed" =>
            /\ view[p] = Slice(view[p].buf, heap[view[p].buf])
            /\ Deref(heap, view[p]) = proj[p].image
       /\ \A i \in DOMAIN prev[p] : prev[p][i] = prev[p][1]
       /\ prev[p] # <<>> => prev[p][1] = Alone(p, Build)

\* C11 witness: two projectors on the caller's array, both working on views
\* of it with different options; the first has returned three times, the
\* second twice and is inside its third call, between _map and remap.
C11_Witness ==
  /\ infile.type = "ndarray"
  /\ view[1].buf = "infile" /\ view[2].buf = "infile"
  /\ kwargs[1] # kwargs[2]
  /\ Len(prev[1]) = 3 /\ Len(prev[2]) = 2
  /\ frame[2].pc = "remap"
  /\ prev[1][3].pc = "converted" /\ prev[2][2].pc = "converted"
  /\ proj[1].width >= 2
  /\ prev[1][1] # prev[2][1]
  /\ \E ij \in DOMAIN prev[1][3].img : prev[1][3].img[ij] # 0

\* ------------------------------------------------------ per-pixel edge cases
\* A configuration validate_params accepts.
ValidConfig(kw) ==
  validate_params(kw).raised = "none" /\ validate_params(kw).errors = <<>>

\* A float's place in the order of the reals: a value too small for the
\* grid next to zero on its own side, -0.0 at zero.
Ordered(x) ==
  IF x = NZero THEN 0 ELSE IF x = PTiny THEN 1 ELSE IF x = NTiny THEN 0 - 1 ELSE x

\* The source coordinate (x, y), not NaN, lies outside [0, w) x [0, h).
OutsideImage(x, y, w, h) ==
  /\ x # NaN /\ y # NaN
  /\ ~(/\ 0 <= Ordered(x) /\ Ordered(x) < FromInt(w)
       /\ 0 <= Ordered(y) /\ Ordered(y) < FromInt(h))

\* The source coordinate (x, y), not NaN, lies a whole pixel or more before
\* the first row or column, or at or beyond the last: none of its four
\* neighbours is a pixel of the image.
BeyondBorder(x, y, w, h) ==
  /\ x # NaN /\ y # NaN
  /\ (\/ Ordered(x) <= 0 - FINE \/ Ordered(x) >= FromInt(w)
      \/ Ordered(y) <= 0 - FINE \/ Ordered(y) >= FromInt(h))

\* The part of C12 about errors and the rd = 0 fallback: once the map is
\* computed on a non-empty grid convert returns an image, and a pixel with
\* rd = 0 has the coordinate (0, 0).
C12_NoPixelAborts(p) ==
  LET o == proj[p] IN
  /\ (o.mapped /\ Grid(o) # {}) => o.pc = "converted" /\ o.err = "none"
  /\ o.mapped => \A ij \in Grid(o) :
       hypot(ij[1] - o.attrs.xcenter, ij[2] - o.attrs.ycenter) = 0
         => ~o.rdmask[ij] /\ o.xs[ij] = 0 /\ o.ys[ij] = 0

\* C12 (as claimed): for every valid configuration no per-pixel case aborts
\* the conversion, a pixel with rd = 0 takes the zero-coordinate fallback,
\* and every output pixel whose source coordinate lies outside
\* [0, width) x [0, height) is zero.
C12_Original ==
  \A p \in Proj :
    (ConvertReturned(p) /\ ValidConfig(kwargs[p]) /\ UsableImage(infile)) =>
      /\ C12_NoPixelAborts(p)
      /\ proj[p].pc = "converted" => \A ij \in Grid(proj[p]) :
           OutsideImage(proj[p].xs[ij], proj[p].ys[ij], proj[p].width, proj[p].height)
             => proj[p].img[ij] = 0

\* C12 (amended): ... and every output pixel whose source coordinate lies a
\* whole pixel or more outside the image on the low side (xs <= -1 or
\* ys <= -1), or at or beyond width / height on the high side, is zero; a
\* coordinate in (-1, 0) is blended with the border and need not be.
C12_EdgeCasesNeverAbort ==
  \A p \in Proj :
    (ConvertReturned(p) /\ ValidConfig(kwargs[p]) /\ UsableImage(infile)) =>
      /\ C12_NoPixelAborts(p)
      /\ proj[p].pc = "converted" => \A ij \in Grid(proj[p]) :
           BeyondBorder(proj[p].xs[ij], proj[p].ys[ij], proj[p].width, proj[p].height)
             => proj[p].img[ij] = 0

\* C12 witness: a valid conversion with a fallback pixel, a pixel mapped
\* beyond the border and black, and a pixel that is not black.
C12_Witness ==
  /\ proj[1].pc = "converted" /\ ValidConfig(kwargs[1]) /\ UsableImage(infile)
  /\ \E ij \in Grid(proj[1]) : ~proj[1].rdmask[ij] /\ proj[1].xs[ij] = 0
  /\ \E ij \in Grid(proj[1]) :
       /\ BeyondBorder(proj[1].xs[ij], proj[1].ys[ij], proj[1].width, proj[1].height)
       /\ proj[1].img[ij] = 0
  /\ \E ij \in Grid(proj[1]) : proj[1].img[ij] # 0

\* ------------------------------------------------------ 180-degree symmetry
\* The pixel opposite <<i, j>> in a w x h grid, and an image turned by 180
\* degrees.
Opposite(ij, w, h) == <<w - 1 - ij[1], h - 1 - ij[2]>>
Rotate180(image, w, h) ==
  [y \in 1..h |-> [x \in 1..w |-> image[h + 1 - y][w + 1 - x]]]

\* C13 (as claimed): with pad = 0 and the default centre on a square source
\* image (and options validate_params accepts), every pixel (i, j) and its opposite (W-1-i, H-1-j) have negated
\* centre offsets, their source coordinates are point reflections of each
\* other through the image centre ((W-1)/2, (H-1)/2), and converting the
\* rotated image gives the rotated converted image.
C13_Rotation180Symmetry ==
  \A p \in Proj :
    (/\ proj[p].pc = "converted"
     /\ infile.w = infile.h /\ ValidConfig(kwargs[p])
     /\ proj[p].attrs.pad = 0
     /\ "xcenter" \notin DOMAIN kwargs[p] /\ "ycenter" \notin DOMAIN kwargs[p]
     /\ ~HasNaN(proj[p].xs) /\ ~HasNaN(proj[p].ys))
    => LET o == proj[p]
           w == o.width
           h == o.height
       IN /\ \A ij \in Grid(o) :
               /\ Offset(o.attrs, Opposite(ij, w, h)[1], Opposite(ij, w, h)[2])
                    = <<0 - Offset(o.attrs, ij[1], ij[2])[1],
                        0 - Offset(o.attrs, ij[1], ij[2])[2]>>
               /\ o.rdmask[ij] =>
                    /\ o.xs[Opposite(ij, w, h)]
                         = FAdd(FromInt(w - 1), FNeg(o.xs[ij]))
                    /\ o.ys[Opposite(ij, w, h)]
                         = FAdd(FromInt(h - 1), FNeg(o.ys[ij]))
          /\ \A ij \in Grid(o) :
               remap(Rotate180(o.image, w, h), w, h, o.xs, o.ys, "min")[ij]
                 = o.img[Opposite(ij, w, h)]

\* --------------------------------------------- the four projection models
\* Largest normalisation diameter and largest pixel offset of a comparison.
MaxDim == 4
MaxOffset == 3

\* The normalisation diameters convert computes for a side x side working
\* image: the side (circular, a Python int) or the diagonal (fullframe, a
\* numpy float).
Dims ==
  {[bound |-> TRUE, np |-> FALSE, v |-> FromInt(side)] : side \in 1..MaxDim}
  \cup {[bound |-> TRUE, np |-> TRUE, v |-> sqrt(FromInt(side * side + side * side))] :
          side \in 1..MaxDim}

\* One pixel, at offset (xd, yd) from the centre, under fixed fov, pfov and dim.
InitRadial ==
  /\ radial \in [fov : {60, 120, 180}, pfov : {60, 120}, dim : Dims,
                 xd : 0..MaxOffset, yd : 0..MaxOffset,
                 applied : {FALSE}, phi : {0}, rr : {<<>>}]
  /\ infile \in {f \in Infiles : f.type = "NoneType"}
  /\ kwargs = [p \in Proj |-> <<>>]
  /\ proj = [p \in Proj |-> Absent]
  /\ nanAs = "unknown"
  /\ validation = NotValidated
  /\ NoRepeat /\ NoTreadmill /\ NoGui

\* A radius to four decimals: two radii are taken for equal when they agree
\* that far, the last two digits of the grid being the rounding of its
\* arithmetic.  Radii that differ only in the last bit of a double (as the
\* four do at fov = pfov = 90 where phi = fov/2) are equal here; the angles
\* of InitRadial give no such pair.
Decimals4(x) == IF Kind(x) = "num" THEN Sign(x) * RoundDiv(Abs(x), 100) ELSE x

\* Lines 77-94 of _map at that pixel, once per projection model.
ApplyRadial ==
  /\ ~radial.applied
  /\ \E phiang \in {arctan(FMul(Ofocinv(radial.dim.v, radial.pfov),
                                hypot(radial.xd, radial.yd)))} :
       radial' = [radial EXCEPT
                    !.applied = TRUE,
                    !.phi = phiang,
                    !.rr = [d \in valid_dtypes |->
                              Decimals4(Radial(d, radial.fov, radial.dim, phiang).rr)]]
  /\ UNCHANGED <<infile, kwargs, proj, nanAs, validation, repeatVars, treadmillVars, guiVars>>

NextRadial == ApplyRadial

SpecRadial == InitRadial /\ [][NextRadial]_vars

\* C14: for fixed fov, pfov, normalisation diameter and pixel position the
\* four projection models give four pairwise distinct radii rr at every pixel
\* whose incident angle phi is not 0, the pixel where phi = fov/2 included,
\* and all four give rr = 0 where phi = 0.
C14_ModelsPairwiseDistinct ==
  radial.applied =>
    IF radial.phi = 0
      THEN \A d \in valid_dtypes : radial.rr[d] = 0
      ELSE \A d1, d2 \in valid_dtypes : d1 # d2 => radial.rr[d1] # radial.rr[d2]

\* ------------------------------------------------------ presets (config.py)
Preset(fov, pfov, dtype, format) ==
  [fov |-> fov, pfov |-> pfov, dtype |-> dtype, format |-> format,
   xcenter |-> NoneV, ycenter |-> NoneV, radius |-> NoneV,
   angle |-> 0, pad |-> 0]

\* The "params" of every entry of FISHEYE_PRESETS.
FISHEYE_PRESETS ==
  [stereographic |-> Preset(180, 140, "stereographic", "fullframe"),
   linear        |-> Preset(180, 120, "linear", "fullframe"),
   equalarea     |-> Preset(180, 130, "equalarea", "circular"),
   orthographic  |-> Preset(180, 110, "orthographic", "fullframe"),
   ultra_wide    |-> Preset(140, 90, "stereographic", "fullframe"),
   circular      |-> Preset(180, 140, "stereographic", "circular")]

\* get_preset: a copy of the preset's params, ValueError for an unknown name.
get_preset(preset_name) ==
  IF preset_name \in DOMAIN FISHEYE_PRESETS
    THEN FISHEYE_PRESETS[preset_name]
    ELSE [raised |-> "ValueError"]

get_default_params == get_preset("stereographic")

\* The defaults the parameter table documents.
DocumentedDefaults == Preset(180, 120, "stereographic", "fullframe")

\* C15: a projector constructed with no options has fov = 180, pfov = 120,
\* projection model stereographic, format fullframe, pad = 0, angle = 0 and
\* centre and radius unset, and get_default_params() returns the same values.
\* (__init__ resolves an unset centre at once, lines 67-71, so the attributes
\* are compared on every option but the centre.)
C15_DocumentedDefaults ==
  \A p \in Proj :
    Constructed(p) /\ kwargs[p] = <<>> =>
      /\ \A k \in DOMAIN vkwargs \ {"xcenter", "ycenter"} :
           proj[p].attrs[k] = DocumentedDefaults[k]
      /\ get_default_params = DocumentedDefaults

\* ------------------------------------- treadmill speed tracker (main.py)
\* Times are in milliseconds and speeds in mm/s on the SCALE grid: seconds
\* and m/s times SCALE.
REAL_DISTANCE_BETWEEN_MARKERS == 300
VIRTUAL_LINE_POSITION == 500
MIN_TIME_BETWEEN_DETECTIONS == 100

\* Calls made on one calculator, and the largest averaging window.
MaxCalls == 5
MaxWindow == 2

\* Width of the captured frame, and the virtual line int(width * position).
frame_width == 3
line_x == TruncDiv(frame_width * VIRTUAL_LINE_POSITION, SCALE)

\* Centroid x of the first detected circle; NoneV stands for an empty list.
Centroids == 0..(frame_width - 1)
Detections == {NoneV} \cup Centroids

\* Time between two readings of the clock by consecutive frames.
Dts == {MIN_TIME_BETWEEN_DETECTIONS \div 2, MIN_TIME_BETWEEN_DETECTIONS}

WAITING_FOR_MARKER_A == "WAITING_FOR_MARKER_A"
WAITING_FOR_MARKER_B == "WAITING_FOR_MARKER_B"

\* SpeedCalculator(real_distance, min_detection_interval, averaging_window)
\* after __post_init__. err names an exception that ended the program.
SpeedCalculator(real_distance, min_detection_interval, averaging_window) ==
  [real_distance |-> real_distance,
   min_detection_interval |-> min_detection_interval,
   averaging_window |-> averaging_window,
   state |-> WAITING_FOR_MARKER_A,
   t_start |-> NoneV,
   last_detection_time |-> 0,
   last_centroid_x |-> NoneV,
   speed_history |-> <<>>,
   current_speed |-> 0,
   crossing_count |-> 0,
   err |-> "none"]

\* _check_line_crossing that wants the centroid strictly beyond the line.
_check_line_crossing_strict(centroid_x, linex, previous_x) ==
  IF previous_x = NoneV THEN FALSE
  ELSE \/ previous_x < linex /\ linex < centroid_x
       \/ previous_x > linex /\ linex > centroid_x

_check_line_crossing(centroid_x, linex, previous_x) ==
  IF previous_x = NoneV THEN FALSE
  ELSE \/ previous_x < linex /\ linex <= centroid_x
       \/ previous_x > linex /\ linex >= centroid_x

_calculate_speed(self, delta_time) ==
  IF delta_time <= 0 THEN 0 ELSE TruncDiv(self.real_distance * SCALE, delta_time)

RECURSIVE sum(_)
sum(seq) == IF seq = <<>> THEN 0 ELSE Head(seq) + sum(Tail(seq))

\* sum(speed_history) / len(speed_history) of a non-empty history.
Average(history) == TruncDiv(sum(history), Len(history))

\* _add_speed_reading: append, pop(0) beyond the window, then the mean;
\* the division raises ZeroDivisionError on an emptied history.
_add_speed_reading(self, speed) ==
  Val({IF kept = <<>>
         THEN [self EXCEPT !.speed_history = kept, !.err = "ZeroDivisionError"]
         ELSE [self EXCEPT !.speed_history = kept, !.current_speed = Average(kept)] :
       kept \in {Val({IF Len(all) > self.averaging_window THEN Tail(all) ELSE all :
                      all \in {Append(self.speed_history, speed)}})}})

\* The state-B branch that leaves the timer running.
MarkerB_keepTimer(self, current_time) ==
  Val({IF added.err # "none" THEN added
       ELSE [added EXCEPT !.state = WAITING_FOR_MARKER_A,
                          !.last_detection_time = current_time] :
       added \in {IF self.t_start # NoneV
                    THEN _add_speed_reading(self,
                           _calculate_speed(self, current_time - self.t_start))
                    ELSE self}})

\* The branch of update taken on a registered crossing in state B.
MarkerB(self, current_time) ==
  Val({IF added.err # "none" THEN added
       ELSE [added EXCEPT !.state = WAITING_FOR_MARKER_A, !.t_start = NoneV,
                          !.last_detection_time = current_time] :
       added \in {IF self.t_start # NoneV
                    THEN _add_speed_reading(self,
                           _calculate_speed(self, current_time - self.t_start))
                    ELSE self}})

\* Lines 168-199 of update: the crossing check and what follows it.
CheckCrossing(self, detection, linex, current_time) ==
  IF ~_check_line_crossing(detection, linex, self.last_centroid_x)
    THEN [self |-> [self EXCEPT !.last_centroid_x = detection],
          crossing_detected |-> FALSE, path |-> "checked"]
  ELSE Val({[self |-> IF after.err # "none" THEN after
                      ELSE [after EXCEPT !.last_centroid_x = detection],
             crossing_detected |-> TRUE,
             path |-> IF after.err # "none" THEN "raised" ELSE "checked"] :
            after \in {IF self.state = WAITING_FOR_MARKER_A
                         THEN [self EXCEPT !.crossing_count = @ + 1,
                                           !.t_start = current_time,
                                           !.state = WAITING_FOR_MARKER_B,
                                           !.last_detection_time = current_time]
                         ELSE MarkerB([self EXCEPT !.crossing_count = @ + 1],
                                      current_time)}})

\* update whose debounce test is skipped.
update_noDebounce(self, detection, linex, current_time) ==
  IF detection = NoneV
    THEN [self |-> [self EXCEPT !.last_centroid_x = NoneV],
          crossing_detected |-> FALSE, path |-> "no_detection"]
  ELSE CheckCrossing(self, detection, linex, current_time)

\* SpeedCalculator.update: the calculator afterwards, the crossing_detected it
\* returns and the return it left by.
update(self, detection, linex, current_time) ==
  IF detection = NoneV
    THEN [self |-> [self EXCEPT !.last_centroid_x = NoneV],
          crossing_detected |-> FALSE, path |-> "no_detection"]
  ELSE IF current_time - self.last_detection_time < self.min_detection_interval
    THEN [self |-> [self EXCEPT !.last_centroid_x = detection],
          crossing_detected |-> FALSE, path |-> "debounced"]
  ELSE CheckCrossing(self, detection, linex, current_time)

\* reset that leaves the timer fields alone.
reset_keepTimer(self) ==
  [self EXCEPT !.last_centroid_x = NoneV, !.speed_history = <<>>,
               !.current_speed = 0, !.crossing_count = 0]

\* SpeedCalculator.reset
reset(self) ==
  [self EXCEPT !.state = WAITING_FOR_MARKER_A, !.t_start = NoneV,
               !.last_detection_time = 0, !.last_centroid_x = NoneV,
               !.speed_history = <<>>, !.current_speed = 0,
               !.crossing_count = 0]

\* ------------------------------------- GUI speed calculator (main_gui.py)
\* SpeedCalculator(distance_between_markers, moving_avg_window).__init__;
\* speed_history is a deque with maxlen = moving_avg_window.
GuiSpeedCalculator(distance_between_markers, moving_avg_window) ==
  [distance |-> distance_between_markers,
   maxlen |-> moving_avg_window,
   state |-> WAITING_FOR_MARKER_A,
   marker_a_time |-> NoneV,
   marker_b_time |-> NoneV,
   speed_history |-> <<>>,
   crossing_count |-> 0,
   last_speed |-> 0]

\* deque.append under maxlen: the oldest item falls out of a full deque.
DequeAppend(dq, maxlen, item) ==
  IF maxlen = 0 THEN dq
  ELSE IF Len(dq) >= maxlen THEN Append(Tail(dq), item)
  ELSE Append(dq, item)

get_average_speed(self) ==
  IF self.speed_history = <<>> THEN 0 ELSE Average(self.speed_history)

\* A call of process_crossing in progress: the line it runs next (pc) and
\* its local variables.  Another thread can run between any two lines.
NoCall ==
  [pc |-> "idle", crossed |-> FALSE, current_time |-> 0, speed |-> 0,
   count |-> 0, result |-> 0, err |-> "none"]

\* Lines 59-62: the test of crossed and the reading of the clock.
Call(crossed, current_time) ==
  [NoCall EXCEPT !.pc = IF crossed THEN "l64" ELSE "l87",
                 !.crossed = crossed, !.current_time = current_time]

Ended(f) == f.pc \in {"returned", "raised"}

\* The next line of process_crossing (with get_average_speed, lines 87-89,
\* which it returns) on the calculator as it is now.  crossing_count += 1
\* reads the attribute and stores it in two steps; lines 73-76 read
\* marker_b_time and marker_a_time (None - None is a TypeError) and compute
\* the locals time_diff and speed; sum() / len() of a deque emptied since
\* the test of line 87 is 0 / 0, a ZeroDivisionError.
process_crossing_line(self, f) ==
  IF f.pc = "l64" THEN
    [self |-> self,
     f |-> [f EXCEPT !.pc = IF self.state = WAITING_FOR_MARKER_A THEN "l65" ELSE "l69"]]
  ELSE IF f.pc = "l65" THEN
    [self |-> [self EXCEPT !.marker_a_time = f.current_time],
     f |-> [f EXCEPT !.pc = "l66"]]
  ELSE IF f.pc = "l66" THEN
    [self |-> [self EXCEPT !.state = WAITING_FOR_MARKER_B],
     f |-> [f EXCEPT !.pc = "l67"]]
  ELSE IF f.pc = "l67" THEN
    [self |-> self, f |-> [f EXCEPT !.pc = "l67_store", !.count = self.crossing_count]]
  ELSE IF f.pc = "l67_store" THEN
    [self |-> [self EXCEPT !.crossing_count = f.count + 1],
     f |-> [f EXCEPT !.pc = "l87"]]
  ELSE IF f.pc = "l69" THEN
    [self |-> self,
     f |-> [f EXCEPT !.pc = IF self.state = WAITING_FOR_MARKER_B THEN "l70" ELSE "l87"]]
  ELSE IF f.pc = "l70" THEN
    [self |-> [self EXCEPT !.marker_b_time = f.current_time],
     f |-> [f EXCEPT !.pc = "l72"]]
  ELSE IF f.pc = "l72" THEN
    [self |-> self,
     f |-> [f EXCEPT !.pc = IF self.marker_a_time # NoneV THEN "l73" ELSE "l81"]]
  ELSE IF f.pc = "l73" THEN
    IF self.marker_b_time = NoneV \/ self.marker_a_time = NoneV
      THEN [self |-> self, f |-> [f EXCEPT !.pc = "raised", !.err = "TypeError"]]
    ELSE IF self.marker_b_time - self.marker_a_time > 0
      THEN [self |-> self,
            f |-> [f EXCEPT !.pc = "l77",
                            !.speed = TruncDiv(self.distance * SCALE,
                                               self.marker_b_time - self.marker_a_time)]]
    ELSE [self |-> self, f |-> [f EXCEPT !.pc = "l81"]]
  ELSE IF f.pc = "l77" THEN
    [self |-> [self EXCEPT !.speed_history = DequeAppend(@, self.maxlen, f.speed)],
     f |-> [f EXCEPT !.pc = "l78"]]
  ELSE IF f.pc = "l78" THEN
    [self |-> [self EXCEPT !.last_speed = f.speed], f |-> [f EXCEPT !.pc = "l79"]]
  ELSE IF f.pc = "l79" THEN
    [self |-> self, f |-> [f EXCEPT !.pc = "l79_store", !.count = self.crossing_count]]
  ELSE IF f.pc = "l79_store" THEN
    [self |-> [self EXCEPT !.crossing_count = f.count + 1],
     f |-> [f EXCEPT !.pc = "l81"]]
  ELSE IF f.pc = "l81" THEN
    [self |-> [self EXCEPT !.state = WAITING_FOR_MARKER_A],
     f |-> [f EXCEPT !.pc = "l87"]]
  ELSE IF f.pc = "l87" THEN
    [self |-> self,
     f |-> IF self.speed_history = <<>> THEN [f EXCEPT !.pc = "returned", !.result = 0]
           ELSE [f EXCEPT !.pc = "l89"]]
  ELSE IF f.pc = "l89" THEN
    [self |-> self,
     f |-> IF self.speed_history = <<>>
             THEN [f EXCEPT !.pc = "raised", !.err = "ZeroDivisionError"]
           ELSE [f EXCEPT !.pc = "returned", !.result = get_average_speed(self)]]
  ELSE [self |-> self, f |-> f]

\* The call f run to its end with no other thread in between.
RECURSIVE Finish(_, _)
Finish(self0, f0) ==
  Val({IF Ended(f) THEN [self |-> self, f |-> f]
       ELSE Val({Finish(r.self, r.f) : r \in {process_crossing_line(self, f)}}) :
       self \in {self0}, f \in {f0}})

\* process_crossing(crossed) at clock reading current_time, undisturbed: the
\* calculator afterwards (it returns get_average_speed of it).
process_crossing(self, crossed, current_time) ==
  Finish(self, Call(crossed, current_time)).self

\* SpeedCalculator.reset of main_gui.py, line by line: pc is the line to run
\* next, 99 past the last.
reset_line(self, pc) ==
  IF pc = 93 THEN [self EXCEPT !.state = WAITING_FOR_MARKER_A]
  ELSE IF pc = 94 THEN [self EXCEPT !.marker_a_time = NoneV]
  ELSE IF pc = 95 THEN [self EXCEPT !.marker_b_time = NoneV]
  ELSE IF pc = 96 THEN [self EXCEPT !.speed_history = <<>>]
  ELSE IF pc = 97 THEN [self EXCEPT !.crossing_count = 0]
  ELSE IF pc = 98 THEN [self EXCEPT !.last_speed = 0]
  ELSE self

\* reset(), undisturbed.
gui_reset(self) ==
  reset_line(reset_line(reset_line(reset_line(reset_line(reset_line(
    self, 93), 94), 95), 96), 97), 98)

\* What an entry holds when its text is no number: var.get() raises TclError.
Unreadable == 0 - 9999

\* SpeedTrackerGUI.__init__, lines 118-119: the distance and the line
\* position the settings dialog edits.  save is the line of save_settings
\* the GUI thread runs next (0 outside the handler), saves the clicks on
\* its Save button.
NewSettings ==
  [distance |-> REAL_DISTANCE_BETWEEN_MARKERS,
   line_position |-> VIRTUAL_LINE_POSITION, save |-> 0, saves |-> 0]

\* What the entries of the dialog hold when Save is clicked: a distance, and
\* a line position inside or outside 0..1.
DistanceEntries == {2 * REAL_DISTANCE_BETWEEN_MARKERS, Unreadable}
LineEntries == {(7 * SCALE) \div 10, (3 * SCALE) \div 2, Unreadable}

\* save_settings, lines 962-964: self.distance and self.line_position from
\* the entries (self.video_source only names what the next Start opens).
\* A get() that raises ends the handler where it stands; line 965 is next.
save_settings(self, distance, line) ==
  IF distance = Unreadable THEN [self EXCEPT !.saves = @ + 1]
  ELSE IF line = Unreadable
    THEN [self EXCEPT !.distance = distance, !.saves = @ + 1]
  ELSE [self EXCEPT !.distance = distance,
                    !.line_position = Max(0, Min(SCALE, line)),
                    !.save = 965, !.saves = @ + 1]

\* Half-width of the band around the virtual line (abs(cx - line_x) < 20),
\* the width of a GUI frame and its virtual line int(width * line_position),
\* line 448.
CrossingBand == 20
gui_frame_width == 100
gui_line_x(line_position) == TruncDiv(gui_frame_width * line_position, SCALE)

\* The centroid x of the circles found in one frame: one just outside the
\* band of the line as constructed, or one just outside and one just inside.
GuiFrames ==
  {<<gui_line_x(VIRTUAL_LINE_POSITION) + CrossingBand>>,
   <<gui_line_x(VIRTUAL_LINE_POSITION) + CrossingBand,
     gui_line_x(VIRTUAL_LINE_POSITION) - CrossingBand + 1>>}

\* The crossed flag the loop over circles leaves.
Crossed(circles, linex) ==
  \E c \in DOMAIN circles : Abs(circles[c] - linex) < CrossingBand

\* Time between the clock readings of consecutive GUI frames.
GuiDts == {0, MIN_TIME_BETWEEN_DETECTIONS}

\* ----------------------------------------------- the trackers as programs
\* No projector, no validation and no model comparison in these programs.
NoProjector ==
  /\ infile \in {f \in Infiles : f.type = "NoneType"}
  /\ kwargs = [p \in Proj |-> <<>>]
  /\ proj = [p \in Proj |-> Absent]
  /\ nanAs = "unknown"
  /\ validation = NotValidated
  /\ NoRepeat /\ NoRadial

projectorVars == <<infile, kwargs, proj, nanAs, validation, repeatVars, radial>>

\* The two threads of main_gui.py and the call on the shared calculator each
\* is in: the worker's process_crossing (its frame, the circles of its video
\* frame, the calculator as the call found it) and the GUI thread's reset
\* (the line it runs next, 0 outside a call).  raced: the other thread was
\* in its call, or wrote the calculator's distance, during this one.  calls and resets count the
\* calls begun.
NotRunning ==
  [worker |-> NoCall, circles |-> <<>>, pre |-> <<>>, raced |-> FALSE,
   reset |-> 0, reset_pre |-> <<>>, reset_raced |-> FALSE, calls |-> 0,
   resets |-> 0]

\* Frames and clicks (on the Reset and on the Save button) that reach the
\* calculator of main_gui.py in one run, and the clicks among them.
MaxGuiCalls == 4
MaxClicks == 1

\* Of the calls of main_gui.py the log keeps the last and the one before.
Recent(calls) == IF Len(calls) > 2 THEN Tail(calls) ELSE calls

\* The worker is inside process_crossing; the GUI thread is inside reset.
InCall == running.worker.pc \notin {"idle", "dead"}
InReset == running.reset # 0

\* main.py constructs its calculator with the module constants and a window;
\* main_gui.py constructs its own with the distance and a window.
InitWindow(windows) ==
  /\ program \in {"main.py", "main_gui.py"}
  /\ now = 0
  /\ \E w \in windows :
       /\ calc = IF program = "main.py"
                   THEN SpeedCalculator(REAL_DISTANCE_BETWEEN_MARKERS,
                                        MIN_TIME_BETWEEN_DETECTIONS, w)
                   ELSE <<>>
       /\ gcalc = IF program = "main_gui.py"
                    THEN GuiSpeedCalculator(REAL_DISTANCE_BETWEEN_MARKERS, w)
                    ELSE <<>>
  /\ log = <<>>
  /\ running = IF program = "main_gui.py" THEN NotRunning ELSE <<>>
  /\ settings = IF program = "main_gui.py" THEN NewSettings ELSE <<>>
  /\ NoProjector /\ NoGui

InitTreadmill == InitWindow(1..MaxWindow)
InitAnyWindow == InitWindow(0..MaxWindow)

\* One iteration of the main loop: read the clock, detect, update.
Update ==
  /\ program = "main.py"
  /\ calc.err = "none"
  /\ Len(log) < MaxCalls
  /\ \E dt \in Dts, detection \in Detections :
       \E r \in {update(calc, detection, line_x, now + dt)} :
         /\ now' = now + dt
         /\ calc' = r.self
         /\ log' = Append(log, [op |-> "update", x |-> detection, t |-> now + dt,
                                crossing_detected |-> r.crossing_detected,
                                path |-> r.path, pre |-> calc])
  /\ UNCHANGED <<program, gcalc, running, settings, projectorVars, guiVars>>

\* The 'r' key of main.py.
Reset ==
  /\ program = "main.py"
  /\ calc.err = "none"
  /\ Len(log) < MaxCalls
  /\ calc' = reset(calc)
  /\ log' = Append(log, [op |-> "reset", x |-> NoneV, t |-> now,
                         crossing_detected |-> FALSE, path |-> "reset",
                         pre |-> calc])
  /\ UNCHANGED <<program, now, gcalc, running, settings, projectorVars, guiVars>>

\* One frame of the GUI worker, lines 454-463: the crossed flag from the
\* circles, then the call of process_crossing, which reads the clock itself
\* (lines 59-62).
ProcessCrossing ==
  /\ program = "main_gui.py"
  /\ running.worker.pc = "idle"
  /\ running.calls < MaxGuiCalls
  /\ \E dt \in GuiDts, circles \in GuiFrames :
       /\ now' = now + dt
       /\ running' = [running EXCEPT
                        !.worker = Call(Crossed(circles,
                                                 gui_line_x(settings.line_position)),
                                         now + dt),
                        !.circles = circles,
                        !.pre = gcalc,
                        !.raced = InReset,
                        !.reset_raced = @ \/ InReset,
                        !.calls = @ + 1]
  /\ UNCHANGED <<program, calc, gcalc, log, settings, projectorVars, guiVars>>

\* The worker runs the next line of process_crossing.  When the call ends it
\* is logged; an exception ends the worker thread.
ProcessCrossingLine ==
  /\ program = "main_gui.py"
  /\ InCall
  /\ \E r \in {process_crossing_line(gcalc, running.worker)} :
       /\ gcalc' = r.self
       /\ IF Ended(r.f)
            THEN /\ log' = Recent(Append(log, [op |-> "process_crossing",
                                        circles |-> running.circles,
                                        crossed |-> r.f.crossed,
                                        t |-> r.f.current_time,
                                        pre |-> running.pre,
                                        post |-> r.self,
                                        raced |-> running.raced,
                                        err |-> r.f.err,
                                        result |-> r.f.result]))
                 /\ running' = [running EXCEPT
                                  !.worker = IF r.f.pc = "raised"
                                               THEN [NoCall EXCEPT !.pc = "dead"]
                                             ELSE NoCall,
                                  !.circles = <<>>,
                                  !.pre = <<>>,
                                  !.raced = FALSE]
            ELSE /\ log' = log
                 /\ running' = [running EXCEPT !.worker = r.f]
  /\ UNCHANGED <<program, now, calc, settings, projectorVars, guiVars>>

\* The Reset button of main_gui.py: the GUI thread calls reset (line 490).
GuiReset ==
  /\ program = "main_gui.py"
  /\ ~InReset /\ settings.save = 0
  /\ running.calls < MaxGuiCalls
  /\ running.resets + settings.saves < MaxClicks
  /\ running' = [running EXCEPT !.reset = 93, !.reset_pre = gcalc,
                                !.reset_raced = InCall,
                                !.raced = @ \/ InCall,
                                !.calls = @ + 1, !.resets = @ + 1]
  /\ UNCHANGED <<program, now, calc, gcalc, log, settings, projectorVars, guiVars>>

\* The GUI thread runs the next line of reset; after line 98 the call is
\* logged.
GuiResetLine ==
  /\ program = "main_gui.py"
  /\ InReset
  /\ \E after \in {reset_line(gcalc, running.reset)} :
       /\ gcalc' = after
       /\ IF running.reset = 98
            THEN /\ log' = Recent(Append(log, [op |-> "reset", circles |-> <<>>,
                                        crossed |-> FALSE, t |-> now,
                                        pre |-> running.reset_pre,
                                        post |-> after,
                                        raced |-> running.reset_raced,
                                        err |-> "none",
                                        result |-> 0]))
                 /\ running' = [running EXCEPT !.reset = 0, !.reset_pre = <<>>,
                                               !.reset_raced = FALSE]
            ELSE /\ log' = log
                 /\ running' = [running EXCEPT !.reset = @ + 1]
  /\ UNCHANGED <<program, now, calc, settings, projectorVars, guiVars>>

\* The GUI thread is in none of its handlers.
GuiIdle ==
  /\ settings.save = 0
  /\ DOMAIN running # {} => ~InReset
  /\ DOMAIN tracker # {} => tracker.gui = "idle"

\* The Save button of the settings dialog, lines 962-964.
SaveSettings ==
  /\ program = "main_gui.py"
  /\ GuiIdle
  /\ IF DOMAIN running = {}
       THEN tracker.resets + settings.saves < MaxClicks /\ running' = running
     ELSE /\ running.calls < MaxGuiCalls
          /\ running.resets + settings.saves < MaxClicks
          /\ running' = [running EXCEPT !.calls = @ + 1]
  /\ \E distance \in DistanceEntries, line \in LineEntries :
       settings' = save_settings(settings, distance, line)
  /\ UNCHANGED <<program, now, calc, gcalc, log, projectorVars, guiVars>>

\* Line 965: self.speed_calc.distance = self.distance, a write to the
\* calculator the worker may be inside a call on.
SaveSettingsLine ==
  /\ program = "main_gui.py"
  /\ settings.save = 965
  /\ gcalc' = [gcalc EXCEPT !.distance = settings.distance]
  /\ settings' = [settings EXCEPT !.save = 0]
  /\ running' = IF DOMAIN running = {} THEN running
                ELSE [running EXCEPT !.raced = @ \/ InCall]
  /\ UNCHANGED <<program, now, calc, log, projectorVars, guiVars>>

NextTreadmill ==
  \/ Update \/ Reset
  \/ ProcessCrossing \/ ProcessCrossingLine \/ GuiReset \/ GuiResetLine
  \/ SaveSettings \/ SaveSettingsLine

SpecTreadmill == InitTreadmill /\ [][NextTreadmill]_vars
SpecAnyWindow == InitAnyWindow /\ [][NextTreadmill]_vars

\* ------------------------------------------------ properties of the trackers
\* The calculator as call i of the log left it.
Post(i) ==
  IF program = "main_gui.py" THEN log[i].post
  ELSE IF i < Len(log) THEN log[i + 1].pre
  ELSE calc

\* Call i of main_gui.py overlapped a call of the other thread, or a write
\* of save_settings to the calculator.
Raced(i) == program = "main_gui.py" /\ log[i].raced

Calls == 1..Len(log)

\* Call i is an update that registered a crossing (crossing_count grew).
Registered(i) ==
  /\ log[i].op = "update"
  /\ Post(i).crossing_count = log[i].pre.crossing_count + 1

\* The last n items of seq (all of them when it has fewer).
LastN(seq, n) == SubSeq(seq, Len(seq) - Min(Len(seq), n) + 1, Len(seq))

\* C16: the main.py calculator works in strict two-step cycles. Counted from
\* construction or the last reset, an odd-numbered registered crossing only
\* starts the timer (state WAITING_FOR_MARKER_B, t_start = current time, no
\* reading added); an even-numbered one adds exactly one reading
\* real_distance / (current_time - t_start) and returns to
\* WAITING_FOR_MARKER_A with t_start cleared; and in every reachable state
\* state = WAITING_FOR_MARKER_B iff t_start is set iff crossing_count is odd.
C16_TwoStepCycles ==
  program = "main.py" =>
    /\ (calc.state = WAITING_FOR_MARKER_B) <=> (calc.t_start # NoneV)
    /\ (calc.t_start # NoneV) <=> (calc.crossing_count % 2 = 1)
    /\ \A i \in Calls :
         Registered(i) =>
           IF log[i].pre.crossing_count % 2 = 0
             THEN /\ Post(i).state = WAITING_FOR_MARKER_B
                  /\ Post(i).t_start = log[i].t
                  /\ Post(i).speed_history = log[i].pre.speed_history
                  /\ Post(i).current_speed = log[i].pre.current_speed
             ELSE /\ Post(i).err = "none"
                  /\ Post(i).state = WAITING_FOR_MARKER_A
                  /\ Post(i).t_start = NoneV
                  /\ Post(i).speed_history =
                       LastN(Append(log[i].pre.speed_history,
                                    TruncDiv(log[i].pre.real_distance * SCALE,
                                             log[i].t - log[i].pre.t_start)),
                             log[i].pre.averaging_window)

\* Two full cycles: four registered crossings and two readings.
C16_Witness ==
  /\ program = "main.py"
  /\ calc.crossing_count = 4
  /\ Len(calc.speed_history) = 2

\* Calls i..j of the log are updates only.
UpdatesOnly(i, j) == \A k \in i..j : log[k].op = "update"

\* Call i registered the last crossing before call j.
LastCrossingBefore(i, j) ==
  /\ i < j /\ Registered(i) /\ UpdatesOnly(i, j)
  /\ \A k \in (i + 1)..(j - 1) : ~Registered(k)

\* C17: in a sequence of update calls with non-decreasing timestamps, any two
\* registered crossings are at least min_detection_interval apart; an update
\* made less than min_detection_interval after the last registered crossing
\* changes nothing but last_centroid_x; and every recorded reading has
\* delta_time > 0.
C17_DebounceInterval ==
  program = "main.py" =>
    \A j \in Calls :
      /\ \A i \in Calls :
           LastCrossingBefore(i, j) =>
             /\ Registered(j) =>
                  log[j].t - log[i].t >= calc.min_detection_interval
             /\ log[j].t - log[i].t < calc.min_detection_interval =>
                  Post(j) = [log[j].pre EXCEPT
                               !.last_centroid_x = Post(j).last_centroid_x]
      /\ Registered(j) /\ log[j].pre.state = WAITING_FOR_MARKER_B =>
           log[j].t - log[j].pre.t_start > 0

\* A detection that steps over the line less than the interval after a
\* registered crossing, and a reading recorded later.
C17_Witness ==
  /\ program = "main.py"
  /\ calc.speed_history # <<>>
  /\ \E i, j \in Calls :
       /\ LastCrossingBefore(i, j)
       /\ log[j].t - log[i].t < calc.min_detection_interval
       /\ log[j].x # NoneV
       /\ _check_line_crossing(log[j].x, line_x, log[j].pre.last_centroid_x)

\* Calls k..n are consecutive frames, each with a detection and none inside
\* the debounce interval, over which the marker moves monotonically from one
\* side of the line (dir = 1: from the left, dir = -1: from the right) to the
\* line or beyond it.
Pass(k, n, dir) ==
  /\ k < n
  /\ \A m \in k..n : log[m].op = "update" /\ log[m].path = "checked"
  /\ \A m \in k..(n - 1) : dir * log[m].x <= dir * log[m + 1].x
  /\ dir * log[k].x < dir * line_x
  /\ dir * log[n].x >= dir * line_x

\* The first frame of k..n whose centroid is at or beyond the line.
FirstBeyond(k, n, dir) ==
  CHOOSE m \in k..n :
    /\ dir * log[m].x >= dir * line_x
    /\ \A l \in k..(m - 1) : dir * log[l].x < dir * line_x

\* C18: a marker moving monotonically across the virtual line over
\* consecutive frames, each with a detection and none debounced, is reported
\* as crossed on exactly one update, the first frame at or beyond the line, in
\* either direction; a frame with no detection clears the previous position,
\* so the first frame after a detection gap never reports a crossing.
C18_OneCrossingPerPass ==
  program = "main.py" =>
    /\ \A k, n \in Calls : \A dir \in {1, 0 - 1} :
         Pass(k, n, dir) =>
           \A m \in (k + 1)..n :
             log[m].crossing_detected <=> (m = FirstBeyond(k, n, dir))
    /\ \A i \in Calls :
         log[i].op = "update" /\ log[i].x = NoneV =>
           /\ Post(i).last_centroid_x = NoneV
           /\ i < Len(log) /\ log[i + 1].op = "update" =>
                ~log[i + 1].crossing_detected

\* A three-frame pass from the left and one from the right, each reported
\* once, and a frame beyond the line right after a gap.
C18_Witness ==
  /\ program = "main.py"
  /\ \E k \in Calls : k + 2 <= Len(log) /\ Pass(k, k + 2, 1)
                      /\ log[k + 1].crossing_detected
  /\ \E k \in Calls : k + 2 <= Len(log) /\ Pass(k, k + 2, 0 - 1)
                      /\ log[k + 1].crossing_detected

\* A frame at the line straight after a frame with no detection.
C18_WitnessGap ==
  /\ program = "main.py"
  /\ \E i \in Calls :
       /\ i >= 2 /\ i < Len(log)
       /\ log[i - 1].x # NoneV /\ log[i - 1].x < line_x
       /\ log[i].op = "update" /\ log[i].x = NoneV
       /\ log[i + 1].op = "update" /\ log[i + 1].path = "checked"
       /\ log[i + 1].x >= line_x

\* Call i is an update that ran _add_speed_reading: a registered crossing in
\* state WAITING_FOR_MARKER_B with the timer set.
AddedReading(i) ==
  /\ Registered(i)
  /\ log[i].pre.state = WAITING_FOR_MARKER_B
  /\ log[i].pre.t_start # NoneV

\* C19: after every _add_speed_reading, for every averaging_window >= 0 the
\* calculator was constructed with, the call raised no error, speed_history
\* holds at most averaging_window readings, the most recent ones oldest
\* first, and current_speed is their arithmetic mean.
C19_WindowedMean ==
  program = "main.py" =>
    \A i \in Calls :
      AddedReading(i) =>
        /\ Post(i).err = "none"
        /\ Len(Post(i).speed_history) <= Post(i).averaging_window
        /\ Post(i).speed_history =
             LastN(Append(log[i].pre.speed_history,
                          _calculate_speed(log[i].pre, log[i].t - log[i].pre.t_start)),
                   Post(i).averaging_window)
        /\ Post(i).current_speed = Average(Post(i).speed_history)

\* A freshly constructed calculator with the configuration of c.
Fresh(c) ==
  IF program = "main.py"
    THEN SpeedCalculator(c.real_distance, c.min_detection_interval,
                         c.averaging_window)
    ELSE GuiSpeedCalculator(c.distance, c.maxlen)

\* The calculator after reset call i is the fresh one and the call after it
\* gives what it gives on the fresh one.
ResetIsFresh(i) ==
  /\ Post(i) = Fresh(log[i].pre)
  /\ i < Len(log) /\ log[i + 1].op = "update" =>
       /\ Post(i + 1) = update(Fresh(log[i].pre), log[i + 1].x, line_x,
                               log[i + 1].t).self
       /\ log[i + 1].crossing_detected =
            update(Fresh(log[i].pre), log[i + 1].x, line_x,
                   log[i + 1].t).crossing_detected
  /\ (/\ i < Len(log) /\ log[i + 1].op = "process_crossing" /\ ~Raced(i + 1)
      /\ log[i + 1].pre.distance = log[i].pre.distance) =>
       Post(i + 1) = process_crossing(Fresh(log[i].pre),
                                      log[i + 1].crossed, log[i + 1].t)

\* C20: reset returns the speed calculator to its initial state: after a
\* reset following any sequence of updates every field equals its value in
\* a freshly constructed calculator with the same configuration, so the next
\* input gives the output it gives on a fresh calculator; for the main.py
\* and for the main_gui.py calculator.
C20_ResetIsFresh ==
  program \in {"main.py", "main_gui.py"} =>
    \A i \in Calls : log[i].op = "reset" => ResetIsFresh(i)

\* The same for the resets that run alone: every main.py reset, and the
\* main_gui.py resets during which the worker thread is in no
\* process_crossing call.
ResetAloneIsFresh ==
  program \in {"main.py", "main_gui.py"} =>
    \A i \in Calls : (log[i].op = "reset" /\ ~Raced(i)) => ResetIsFresh(i)

\* main.py: a reset in mid-cycle (timer running) with a reading in the
\* history and a previous position.
C20_Witness ==
  /\ program = "main.py"
  /\ \E i \in Calls :
       /\ log[i].op = "reset"
       /\ log[i].pre.state = WAITING_FOR_MARKER_B
       /\ log[i].pre.t_start # NoneV
       /\ log[i].pre.speed_history # <<>>
       /\ log[i].pre.current_speed # 0
       /\ log[i].pre.last_centroid_x # NoneV
       /\ log[i].pre.last_detection_time # 0

\* main_gui.py: a reset in mid-cycle with a reading in the history.
C20_WitnessGui ==
  /\ program = "main_gui.py"
  /\ \E i \in Calls :
       /\ log[i].op = "reset"
       /\ log[i].pre.state = WAITING_FOR_MARKER_B
       /\ log[i].pre.marker_b_time # NoneV
       /\ log[i].pre.speed_history # <<>>
       /\ log[i].pre.last_speed # 0

\* Calls i..j are consecutive GUI frames in each of which some centroid lies
\* within the band around the virtual line: (part of) one pass of a marker.
GuiPass(i, j) ==
  /\ i <= j
  /\ \A k \in i..j : log[k].op = "process_crossing" /\ log[k].crossed /\ ~Raced(k)

\* C21: in the GUI tracker one pass of a marker, a run of consecutive frames
\* with some centroid within 20 px of the virtual line, is counted as one
\* crossing: it causes exactly one state transition of the SpeedCalculator,
\* so a reading is computed only from the crossing times of two passes.
C21_OnePassOneTransition ==
  program = "main_gui.py" =>
    \A i, j \in Calls :
      GuiPass(i, j) =>
        Cardinality({k \in i..j : Post(k).state # log[k].pre.state}) = 1

\* ------------------------------- the GUI tracker's threads (main_gui.py)
\* Start clicks in one run of the GUI, and frames the sources deliver.
MaxStarts == 2
MaxFrames == 2

\* Worker threads and captures are numbered by the Start that made them;
\* NoCap is self.cap = None.
Workers == 1..MaxStarts
NoCap == 0

\* SpeedTrackerGUI.__init__, lines 132-134, with both buttons as built.
\* gui is the GUI thread's position inside its handler, reset the line of
\* SpeedCalculator.reset it runs next and resets the Reset clicks so far;
\* thread[w].misuse records a capture call made on None or on a released
\* capture.
NewTracker ==
  [is_running |-> FALSE, cap |-> NoCap, opened |-> {}, released |-> {},
   starts |-> 0, start_enabled |-> TRUE, closing |-> FALSE, gui |-> "idle",
   reset |-> 0, resets |-> 0,
   thread |-> [w \in Workers |-> [pc |-> "unborn", misuse |-> "none",
                                   call |-> NoCall]]]

InitTracker ==
  /\ program = "main_gui.py"
  /\ now = 0
  /\ calc = <<>>
  /\ gcalc = GuiSpeedCalculator(REAL_DISTANCE_BETWEEN_MARKERS, MaxWindow)
  /\ log = <<>>
  /\ running = <<>>
  /\ settings = NewSettings
  /\ tracker = NewTracker
  /\ app = <<>>
  /\ NoProjector

trackerOthers == <<program, calc, log, running, settings, app, projectorVars>>

\* The capture c answers isOpened() with True.
IsOpen(c) == c \in tracker.opened /\ c \notin tracker.released

\* _start_tracking, lines 381-390: return when running, else open a capture.
StartOpen ==
  /\ GuiIdle /\ tracker.start_enabled
  /\ tracker.starts < MaxStarts
  /\ IF tracker.is_running THEN UNCHANGED tracker
     ELSE \E ok \in BOOLEAN :
            tracker' = [tracker EXCEPT
                          !.starts = @ + 1,
                          !.cap = tracker.starts + 1,
                          !.opened = IF ok THEN @ \cup {tracker.starts + 1} ELSE @,
                          !.gui = "start_opened"]
  /\ UNCHANGED <<now, gcalc, trackerOthers>>

\* Lines 391-399 and 410-412: an unopened source raises and the handler sets
\* is_running False; else is_running True and the buttons switch.
StartRun ==
  /\ tracker.gui = "start_opened"
  /\ tracker' = IF IsOpen(tracker.cap)
                  THEN [tracker EXCEPT !.is_running = TRUE,
                                       !.start_enabled = FALSE,
                                       !.gui = "start_thread"]
                  ELSE [tracker EXCEPT !.is_running = FALSE, !.gui = "idle"]
  /\ UNCHANGED <<now, gcalc, trackerOthers>>

\* Lines 407-408: the new worker thread starts.
StartThread ==
  /\ tracker.gui = "start_thread"
  /\ tracker' = [tracker EXCEPT !.thread[tracker.starts].pc = "while",
                                !.gui = "idle"]
  /\ UNCHANGED <<now, gcalc, trackerOthers>>

\* _stop_tracking, lines 416-418, from the Stop button or, with closing, from
\* _on_closing (line 984).
StopFlag ==
  /\ GuiIdle
  /\ \E closing \in BOOLEAN :
       /\ ~closing => ~tracker.start_enabled
       /\ tracker' = [tracker EXCEPT !.is_running = FALSE,
                                     !.start_enabled = TRUE,
                                     !.closing = closing,
                                     !.gui = "stop_test"]
  /\ UNCHANGED <<now, gcalc, trackerOthers>>

\* Lines 420-421: release the capture if there is one.  With closing the
\* handler is _on_closing, which goes on to line 985 (gui = "closed").
StopRelease ==
  /\ tracker.gui = "stop_test"
  /\ tracker' = IF tracker.cap # NoCap
                  THEN [tracker EXCEPT !.released = @ \cup {tracker.cap},
                                       !.gui = "stop_clear"]
                  ELSE [tracker EXCEPT
                          !.gui = IF tracker.closing THEN "closed" ELSE "idle"]
  /\ UNCHANGED <<now, gcalc, trackerOthers>>

\* Line 422: self.cap = None.
StopClear ==
  /\ tracker.gui = "stop_clear"
  /\ tracker' = [tracker EXCEPT
                   !.cap = NoCap,
                   !.gui = IF tracker.closing THEN "closed" ELSE "idle"]
  /\ UNCHANGED <<now, gcalc, trackerOthers>>

\* The Reset button, _reset_stats, line 490: the GUI thread enters reset on
\* the calculator the worker calls process_crossing on.
ResetStats ==
  /\ GuiIdle
  /\ tracker.resets + settings.saves < MaxClicks
  /\ tracker' = [tracker EXCEPT !.gui = "reset", !.reset = 93, !.resets = @ + 1]
  /\ UNCHANGED <<now, gcalc, trackerOthers>>

\* The next line of reset (93-98); after line 98 _reset_stats sets the
\* labels and shows its dialog (lines 491-496) and the handler is over.
ResetStatsLine ==
  /\ tracker.gui = "reset"
  /\ gcalc' = reset_line(gcalc, tracker.reset)
  /\ tracker' = IF tracker.reset = 98
                  THEN [tracker EXCEPT !.gui = "idle", !.reset = 0]
                  ELSE [tracker EXCEPT !.reset = @ + 1]
  /\ UNCHANGED <<now, trackerOthers>>

\* _on_closing, line 985: root.destroy(); mainloop returns.
Destroy ==
  /\ tracker.gui = "closed"
  /\ tracker' = [tracker EXCEPT !.gui = "destroyed"]
  /\ UNCHANGED <<now, gcalc, trackerOthers>>

\* Line 991 returns and the interpreter ends: the workers are daemon threads
\* (line 407) nobody joins, and stop where they are.
Exit ==
  /\ tracker.gui = "destroyed"
  /\ tracker' = [tracker EXCEPT !.gui = "exited"]
  /\ UNCHANGED <<now, gcalc, trackerOthers>>

\* The worker runs until the interpreter ends.
Alive(w) == tracker.gui # "exited" /\ tracker.thread[w].pc \notin {"unborn", "exited", "died"}

\* Line 431: while self.is_running
WorkerWhile(w) ==
  /\ Alive(w) /\ tracker.thread[w].pc = "while"
  /\ tracker' = [tracker EXCEPT
                   !.thread[w].pc = IF tracker.is_running THEN "test_none"
                                    ELSE "exited"]
  /\ UNCHANGED <<now, gcalc, trackerOthers>>

\* Line 432, left operand: self.cap is None
WorkerTestNone(w) ==
  /\ Alive(w) /\ tracker.thread[w].pc = "test_none"
  /\ tracker' = [tracker EXCEPT
                   !.thread[w].pc = IF tracker.cap = NoCap THEN "exited"
                                    ELSE "isOpened"]
  /\ UNCHANGED <<now, gcalc, trackerOthers>>

\* Line 432, right operand: self.cap.isOpened() on whatever self.cap is now;
\* AttributeError on None ends the thread.
WorkerIsOpened(w) ==
  /\ Alive(w) /\ tracker.thread[w].pc = "isOpened"
  /\ tracker' =
       IF tracker.cap = NoCap
         THEN [tracker EXCEPT !.thread[w].pc = "died",
                              !.thread[w].misuse = "isOpened on None"]
       ELSE IF tracker.cap \in tracker.released
         THEN [tracker EXCEPT !.thread[w].pc = "exited",
                              !.thread[w].misuse = "isOpened on released"]
       ELSE [tracker EXCEPT
               !.thread[w].pc = IF IsOpen(tracker.cap) THEN "read" ELSE "exited"]
  /\ UNCHANGED <<now, gcalc, trackerOthers>>

\* Lines 435-437: self.cap.read(); a released capture and an exhausted source
\* return ret = False and the loop continues.
WorkerRead(w) ==
  /\ Alive(w) /\ tracker.thread[w].pc = "read"
  /\ IF tracker.cap = NoCap
       THEN tracker' = [tracker EXCEPT !.thread[w].pc = "died",
                                       !.thread[w].misuse = "read on None"]
     ELSE IF tracker.cap \in tracker.released
       THEN tracker' = [tracker EXCEPT !.thread[w].pc = "while",
                                       !.thread[w].misuse = "read on released"]
     ELSE \E ret \in {FALSE} \cup {now < MaxFrames * MIN_TIME_BETWEEN_DETECTIONS} :
            tracker' = [tracker EXCEPT
                          !.thread[w].pc = IF ret THEN "process" ELSE "while"]
  /\ UNCHANGED <<now, gcalc, trackerOthers>>

\* Lines 439-463: find the circles, set crossed and call process_crossing
\* on the shared calculator (lines 59-62).
WorkerProcess(w) ==
  /\ Alive(w) /\ tracker.thread[w].pc = "process"
  /\ \E circles \in GuiFrames :
       /\ now' = now + MIN_TIME_BETWEEN_DETECTIONS
       /\ tracker' = [tracker EXCEPT
                        !.thread[w].pc = "process_crossing",
                        !.thread[w].call = Call(Crossed(circles,
                                                        gui_line_x(settings.line_position)),
                                                now + MIN_TIME_BETWEEN_DETECTIONS)]
  /\ UNCHANGED <<gcalc, trackerOthers>>

\* The next line of the worker's process_crossing; an exception ends the
\* thread.
WorkerCrossing(w) ==
  /\ Alive(w) /\ tracker.thread[w].pc = "process_crossing"
  /\ \E r \in {process_crossing_line(gcalc, tracker.thread[w].call)} :
       /\ gcalc' = r.self
       /\ tracker' = [tracker EXCEPT
                        !.thread[w].pc = IF r.f.pc = "returned" THEN "after"
                                         ELSE IF r.f.pc = "raised" THEN "died"
                                         ELSE @,
                        !.thread[w].call = IF r.f.pc = "returned" THEN NoCall ELSE r.f]
  /\ UNCHANGED <<now, trackerOthers>>

\* Line 466: self.root.after hands the frame to the GUI.  On a destroyed
\* root the call raises, which ends the thread, or is lost: which of the two
\* is Tk's business.
WorkerAfter(w) ==
  /\ Alive(w) /\ tracker.thread[w].pc = "after"
  /\ \E raises \in {FALSE, tracker.gui = "destroyed"} :
       tracker' = [tracker EXCEPT
                     !.thread[w].pc = IF raises THEN "died" ELSE "while"]
  /\ UNCHANGED <<now, gcalc, trackerOthers>>

NextTracker ==
  \/ StartOpen \/ StartRun \/ StartThread
  \/ StopFlag \/ StopRelease \/ StopClear \/ Destroy \/ Exit
  \/ SaveSettings \/ SaveSettingsLine \/ ResetStats \/ ResetStatsLine
  \/ \E w \in Workers :
       \/ WorkerWhile(w) \/ WorkerTestNone(w) \/ WorkerIsOpened(w)
       \/ WorkerRead(w) \/ WorkerProcess(w) \/ WorkerCrossing(w)
       \/ WorkerAfter(w)

SpecTracker == InitTracker /\ [][NextTracker]_vars

\* C22: under every interleaving of the GUI thread (_stop_tracking,
\* _on_closing) with the worker, the worker never calls isOpened() or read()
\* on a capture that is None or already released.
C22_NoCaptureUseAfterRelease ==
  \A w \in Workers : tracker.thread[w].misuse = "none"

\* The worker is inside the loop body of _process_video: it found
\* is_running True at line 431 and has not come back to the test.
InLoop(w) ==
  tracker.thread[w].pc \in {"test_none", "isOpened", "read", "process",
                            "process_crossing", "after"}

\* C23: for every sequence of Start and Stop and every interleaving, at most
\* one worker thread is executing the loop of _process_video at any time.
C23_SingleWorker ==
  Cardinality({w \in Workers : InLoop(w)}) <= 1

\* ------------------- the integrated GUI (IntegratedDefisheyeApp)
\* Handlers run in one session of the GUI.
MaxSteps == 3

\* Side of the square both images are displayed in.
DisplaySize == 400

\* The parameter variables as __init__ sets them, lines 169-177.
DefaultVars ==
  [fov |-> 180, pfov |-> 120, xcenter |-> 0 - 1, ycenter |-> 0 - 1,
   radius |-> 0 - 1, angle |-> 0, dtype |-> "equalarea",
   format |-> "fullframe", pad |-> 0]

EntryVars == {"fov", "pfov", "xcenter", "ycenter", "radius", "angle", "pad"}

\* The presets of the (read-only) preset combobox, lines 204-205.
PresetNames == {"stereographic", "linear", "equalarea", "orthographic"}

\* What the user types into an entry or picks in a (read-only) combobox.
AppEdits ==
  {<<"fov", 0>>, <<"fov", 90>>, <<"fov", 200>>, <<"fov", Unreadable>>,
   <<"xcenter", 9>>, <<"radius", 2>>, <<"pad", 1>>,
   <<"dtype", "linear">>, <<"format", "circular">>}

\* The image files the user can open: paths, readable as an image or not.
AppImages == {f \in Infiles : f.type = "str"}

\* The params dict both handlers build: -1 stands for None in xcenter,
\* ycenter, radius and angle; an unreadable entry raises.
ParamsRaises(v) == \E k \in EntryVars : v[k] = Unreadable
Params(v) ==
  [k \in DOMAIN v |->
     IF k \in {"xcenter", "ycenter", "radius", "angle"} /\ v[k] = 0 - 1
       THEN NoneV ELSE v[k]]

\* IntegratedDefisheyeApp.__init__; last describes the last handler run:
\* what it did, the values the variables had and the display before it.
\* No path chosen (original_image_path is None), no image displayed.
NoPath == [type |-> "NoneType", readable |-> FALSE, ndim |-> 0, w |-> 0, h |-> 0]
NoPhoto ==
  [order |-> "none", pixels |-> <<>>, w |-> 0, h |-> 0,
   x_offset |-> 0, y_offset |-> 0]

NoHandler ==
  [op |-> "none", stage |-> "none", failed |-> FALSE, validated |-> FALSE,
   constructed |-> FALSE, converted |-> FALSE, wrote |-> FALSE,
   vars |-> DefaultVars, pre_photo |-> NoPhoto, pre_label |-> NoPhoto]

\* event is the Tk event or button command delivered last.
NewApp ==
  [original_image_path |-> NoPath, original_photo |-> NoPath, vars |-> DefaultVars,
   preset_var |-> "equalarea",
   corrected_photo |-> NoPhoto, corrected_label |-> NoPhoto,
   dialog |-> "none", steps |-> 0, event |-> "none", last |-> NoHandler]

\* DefisheyeAlgorithm(path, **params) followed by convert().
Defisheye(path, params, n) ==
  Val({IF o.pc = "constructed" THEN convert(o, n) ELSE o :
       o \in {__init__(path, params)}})

\* Lines 351-369: BGR to RGB, thumbnail (no resize up to the display size),
\* pasted centred on a white square.
DisplayOf(o) ==
  [order |-> "RGB", pixels |-> o.img, w |-> o.outw, h |-> o.outh,
   x_offset |-> (DisplaySize - Min(o.outw, DisplaySize)) \div 2,
   y_offset |-> (DisplaySize - Min(o.outh, DisplaySize)) \div 2]

Began(a, op) ==
  [NoHandler EXCEPT !.op = op, !.vars = a.vars,
                    !.pre_photo = a.corrected_photo,
                    !.pre_label = a.corrected_label]

\* process_image that blanks the corrected image when it fails.
process_image_blank(a, o) ==
  IF a.original_image_path = NoPath
    THEN [a EXCEPT !.last = Began(a, "process_image")]
  ELSE IF ParamsRaises(a.vars) \/ o.pc # "converted"
    THEN [a EXCEPT !.dialog = "showerror",
                   !.corrected_photo = NoPhoto, !.corrected_label = NoPhoto,
                   !.last = [Began(a, "process_image") EXCEPT
                               !.failed = TRUE, !.stage = "params"]]
  ELSE [a EXCEPT !.corrected_photo = DisplayOf(o),
                 !.corrected_label = DisplayOf(o),
                 !.last = [Began(a, "process_image") EXCEPT
                             !.constructed = TRUE, !.converted = TRUE]]

\* process_image, with o what Defisheye returns for the current parameters
\* (used only when they can be read).
process_image(a, o) ==
  IF a.original_image_path = NoPath
    THEN [a EXCEPT !.last = Began(a, "process_image")]
  ELSE IF ParamsRaises(a.vars)
    THEN [a EXCEPT !.dialog = "showerror",
                   !.last = [Began(a, "process_image") EXCEPT
                               !.failed = TRUE, !.stage = "params"]]
  ELSE IF o.pc # "converted"
    THEN [a EXCEPT !.dialog = "showerror",
                   !.last = [Began(a, "process_image") EXCEPT
                               !.failed = TRUE,
                               !.constructed = o.pc # "failed",
                               !.stage = IF o.pc = "failed" THEN "construct"
                                         ELSE "convert"]]
  ELSE [a EXCEPT !.corrected_photo = DisplayOf(o),
                 !.corrected_label = DisplayOf(o),
                 !.last = [Began(a, "process_image") EXCEPT
                             !.constructed = TRUE, !.converted = TRUE]]

\* save_result with the file name the dialog returned ("" when cancelled).
save_result(a, file_path, o) ==
  IF a.original_image_path = NoPath
    THEN [a EXCEPT !.dialog = "showwarning", !.last = Began(a, "save_result")]
  ELSE IF file_path = "" THEN [a EXCEPT !.last = Began(a, "save_result")]
  ELSE IF ParamsRaises(a.vars)
    THEN [a EXCEPT !.dialog = "showerror",
                   !.last = [Began(a, "save_result") EXCEPT
                               !.failed = TRUE, !.stage = "params"]]
  ELSE Val({
    IF v.raised # "none" \/ v.errors # <<>>
      THEN [a EXCEPT !.dialog = "showerror",
                     !.last = [Began(a, "save_result") EXCEPT
                                 !.failed = TRUE, !.stage = "validate"]]
    ELSE IF o.pc # "converted"
      THEN [a EXCEPT !.dialog = "showerror",
                     !.last = [Began(a, "save_result") EXCEPT
                                 !.failed = TRUE, !.validated = TRUE,
                                 !.constructed = o.pc # "failed",
                                 !.stage = IF o.pc = "failed" THEN "construct"
                                           ELSE "convert"]]
    ELSE [a EXCEPT !.dialog = "showinfo",
                   !.last = [Began(a, "save_result") EXCEPT
                               !.validated = TRUE, !.constructed = TRUE,
                               !.converted = TRUE, !.wrote = TRUE]] :
    v \in {validate_params(Params(a.vars))}})

\* apply_preset, lines 377-416: the nine variables as the chosen preset sets
\* them (the four branches differ in dtype alone); process_image follows.
apply_preset(a) ==
  IF a.preset_var \in PresetNames
    THEN [a EXCEPT !.vars = [DefaultVars EXCEPT !.dtype = a.preset_var]]
    ELSE a

\* show_preset_info: the message reads the nine variables; an entry whose
\* text is no number raises, which the handler reports.
show_preset_info(a) ==
  IF ParamsRaises(a.vars)
    THEN [a EXCEPT !.dialog = "showerror",
                   !.last = [Began(a, "show_preset_info") EXCEPT
                               !.failed = TRUE, !.stage = "params"]]
    ELSE [a EXCEPT !.dialog = "showinfo",
                   !.last = Began(a, "show_preset_info")]

InitApp ==
  /\ app = NewApp
  /\ tracker = <<>>
  /\ NoProjector /\ NoTreadmill

appOthers == <<infile, kwargs, proj, validation, repeatVars, radial, tracker,
               treadmillVars>>

\* A handler begun by event on a: the projector is built and run first (for
\* the parameters a holds), under this build's conversion of NaN coordinates.
Handled(a, event, kind, file_path) ==
  \E first \in {IF nanAs = "unknown" THEN "min" ELSE nanAs} :
  \E readable \in {a.original_image_path # NoPath /\ ~ParamsRaises(a.vars)} :
  \E o \in {IF readable THEN Defisheye(a.original_image_path, Params(a.vars), first)
            ELSE NoObject} :
  \E nan \in {o.pc = "converted" /\ (HasNaN(o.xs) \/ HasNaN(o.ys))} :
  \E n \in (IF nan /\ nanAs = "unknown" THEN {"min", "zero"} ELSE {first}) :
  \E on \in {IF n = first THEN o
             ELSE Defisheye(a.original_image_path, Params(a.vars), n)} :
  \E b \in {IF kind = "save" THEN save_result(a, file_path, on)
            ELSE process_image(a, on)} :
    /\ app' = [b EXCEPT !.steps = app.steps + 1, !.event = event]
    /\ nanAs' = IF nan /\ b.last.converted THEN n ELSE nanAs

\* open_image: the chosen path, load_and_display_original (which raises on a
\* file that is no image, ending the handler), then process_image.
OpenImage ==
  /\ app.steps < MaxSteps
  /\ \E f \in AppImages :
       IF f.readable
         THEN Handled([app EXCEPT !.original_image_path = f,
                                  !.original_photo = f],
                      "open_image", "process", "")
         ELSE /\ app' = [app EXCEPT !.original_image_path = f,
                                    !.steps = @ + 1,
                                    !.event = "open_image",
                                    !.last = Began(app, "open_image")]
              /\ nanAs' = nanAs
  /\ UNCHANGED appOthers

\* A key pressed in an entry, or text pasted into it: Tk writes the entry's
\* variable (textvariable, lines 243-287).  No handler runs, and the
\* corrected image on display is the one of the values before.
TypeEntry ==
  /\ app.steps < MaxSteps
  /\ \E e \in {x \in AppEdits : x[1] \in EntryVars} :
       app' = [app EXCEPT !.vars[e[1]] = e[2], !.steps = @ + 1,
                          !.event = "KeyPress"]
  /\ UNCHANGED <<nanAs, appOthers>>

\* <KeyRelease> in an entry or combobox, line 293: process_image on the
\* variables as they are now.
KeyRelease ==
  /\ app.steps < MaxSteps
  /\ Handled(app, "KeyRelease", "process", "")
  /\ UNCHANGED appOthers

\* A choice in the dtype or format combobox: the widget writes its variable
\* and generates <<ComboboxSelected>>, line 294: process_image.
ComboboxSelected ==
  /\ app.steps < MaxSteps
  /\ \E e \in {x \in AppEdits : x[1] \notin EntryVars} :
       Handled([app EXCEPT !.vars[e[1]] = e[2]], "ComboboxSelected", "process", "")
  /\ UNCHANGED appOthers

\* A choice in the preset combobox, line 207: apply_preset, which sets the
\* variables and calls process_image (line 419).
ApplyPreset ==
  /\ app.steps < MaxSteps
  /\ \E name \in PresetNames :
       Handled(apply_preset([app EXCEPT !.preset_var = name]),
               "apply_preset", "process", "")
  /\ UNCHANGED appOthers

\* The Info button.
ShowPresetInfo ==
  /\ app.steps < MaxSteps
  /\ app' = [show_preset_info(app) EXCEPT !.steps = app.steps + 1,
                                          !.event = "show_preset_info"]
  /\ UNCHANGED <<nanAs, appOthers>>

\* The "Processar Imagem" button.
ProcessImage ==
  /\ app.steps < MaxSteps
  /\ Handled(app, "process_image", "process", "")
  /\ UNCHANGED appOthers

\* The "Salvar Resultado" button, with the save dialog's answer.
SaveResult ==
  /\ app.steps < MaxSteps
  /\ \E file_path \in {"", "out.jpg"} : Handled(app, "save_result", "save", file_path)
  /\ UNCHANGED appOthers

NextApp ==
  \/ OpenImage \/ TypeEntry \/ KeyRelease \/ ComboboxSelected
  \/ ApplyPreset \/ ShowPresetInfo \/ ProcessImage \/ SaveResult

SpecApp == InitApp /\ [][NextApp]_vars

\* --------------------------------------------- properties of the GUI handlers
\* C24: when process_image fails (a parameter cannot be read, the constructor
\* or convert raises), it reports the error in a dialog and corrected_photo
\* and corrected_label are what they were before the call.
C24_FailureKeepsDisplay ==
  (app.last.op = "process_image" /\ app.last.failed) =>
    /\ app.dialog = "showerror"
    /\ app.corrected_photo = app.last.pre_photo
    /\ app.corrected_label = app.last.pre_label

\* convert raised in process_image while a corrected image was displayed.
C24_Witness ==
  /\ app.last.op = "process_image" /\ app.last.failed
  /\ app.last.stage = "convert"
  /\ app.last.pre_photo # NoPhoto

C24_WitnessParams ==
  /\ app.last.op = "process_image" /\ app.last.failed
  /\ app.last.stage = "params"
  /\ app.last.pre_photo # NoPhoto

C24_WitnessConstruct ==
  /\ app.last.op = "process_image" /\ app.last.failed
  /\ app.last.stage = "construct"
  /\ app.last.pre_photo # NoPhoto

\* The process_image that apply_preset calls failed while a corrected image
\* was displayed.
C24_WitnessPreset ==
  /\ app.event = "apply_preset"
  /\ app.last.op = "process_image" /\ app.last.failed
  /\ app.last.pre_photo # NoPhoto

\* An entry was edited and no key release has been handled yet: the image
\* on display is the one of the values before the edit.
StaleDisplay ==
  /\ app.event = "KeyPress"
  /\ app.corrected_photo # NoPhoto
  /\ ParamsRaises(app.vars)

\* The last handler constructed a DefisheyeAlgorithm, ran convert or wrote a file.
WorkDone == app.last.constructed \/ app.last.converted \/ app.last.wrote

\* C25: a handler of the GUI constructs a DefisheyeAlgorithm, runs convert or
\* writes a file only for parameter values for which validate_params returns
\* an empty list.
C25_ValidateBeforeWork ==
  WorkDone =>
    \/ app.last.validated
    \/ validate_params(Params(app.last.vars)).errors = <<>>

\* ------------------------------------------------ properties of validate_params
Constraints == {"fov", "pfov", "angle", "radius", "pad", "dtype", "format"}

\* The constraint c as stated, on params with the defaults for missing keys.
Holds(c, params) ==
  CASE c = "fov" -> 0 <= Get(params, "fov", 180) /\ Get(params, "fov", 180) <= 180
    [] c = "pfov" -> 0 <= Get(params, "pfov", 140) /\ Get(params, "pfov", 140) <= 180
    [] c = "angle" ->
         \/ Get(params, "angle", 0) \in {NoneV, 0 - 1}
         \/ 0 <= Get(params, "angle", 0) /\ Get(params, "angle", 0) <= 360
    [] c = "radius" ->
         \/ Get(params, "radius", NoneV) \in {NoneV, 0 - 1}
         \/ Get(params, "radius", NoneV) >= 0
    [] c = "pad" -> 0 <= Get(params, "pad", 0) /\ Get(params, "pad", 0) <= 1000
    [] c = "dtype" ->
         Get(params, "dtype", "stereographic")
           \in {"linear", "equalarea", "orthographic", "stereographic"}
    [] c = "format" -> Get(params, "format", "fullframe") \in {"fullframe", "circular"}

Violated(params) == {c \in Constraints : ~Holds(c, params)}

\* The message of each constraint.
Message(c) ==
  CASE c = "fov" -> "FOV deve estar entre 0 e 180"
    [] c = "pfov" -> "PFOV deve estar entre 0 e 180"
    [] c = "angle" -> "Angle deve estar entre 0 e 360"
    [] c = "radius" -> "Radius deve ser maior que 0"
    [] c = "pad" -> "Pad deve estar entre 0 e 1000"
    [] c = "dtype" ->
         "Dtype deve ser um dos: linear, equalarea, orthographic, stereographic"
    [] c = "format" -> "Format deve ser um dos: fullframe, circular"

\* The returned list has exactly the messages of the violated constraints.
MessagesMatch ==
  /\ Len(validation.errors) = Cardinality(Violated(kwargs[1]))
  /\ \A c \in Constraints :
       c \in Violated(kwargs[1]) <=>
         \E i \in DOMAIN validation.errors : validation.errors[i] = Message(c)
  /\ validation.errors = <<>> <=> \A c \in Constraints : Holds(c, kwargs[1])

\* fov, pfov or pad is present in params with the value None.
NoneCompared(params) ==
  \E k \in {"fov", "pfov", "pad"} : k \in DOMAIN params /\ params[k] = NoneV

PresetsValidate ==
  \A n \in DOMAIN FISHEYE_PRESETS :
    validate_params(FISHEYE_PRESETS[n]) =
      [called |-> TRUE, raised |-> "none", errors |-> <<>>]

\* C26 as stated: every call of validate_params returns a list, which holds
\* exactly one message for each violated constraint (fov, pfov and pad in
\* range, angle in range and radius not negative unless None or -1, dtype and
\* format among the known names, missing keys taking their defaults) and is
\* empty iff all seven hold.
C26_Original ==
  validation.called => (validation.raised = "none" /\ MessagesMatch)

\* C26 (amended): a call raises TypeError exactly when fov, pfov or pad is
\* given as None; every other call returns the list with exactly one message
\* for each violated constraint, empty iff all seven hold; the call leaves
\* params as it was, and every preset gives the empty list.
C26_OneMessagePerViolation ==
  /\ [](/\ validation.called =>
             /\ validation.raised = "TypeError" <=> NoneCompared(kwargs[1])
             /\ validation.raised = "none" <=> ~NoneCompared(kwargs[1])
             /\ validation.raised = "none" => MessagesMatch
        /\ PresetsValidate)
  /\ [][kwargs' = kwargs]_vars

\* A call with a radius of -2 and a fov of 200: both are reported.
C26_Witness ==
  /\ validation.called /\ validation.raised = "none"
  /\ DOMAIN kwargs[1] = {"radius", "fov"}
  /\ kwargs[1].radius = 0 - 2 /\ kwargs[1].fov = 200
  /\ validation.errors = <<Message("fov"), Message("radius")>>

\* A call with an angle of -1 and a pad of -1: only the pad is reported.
C26_WitnessExempt ==
  /\ validation.called /\ validation.raised = "none"
  /\ DOMAIN kwargs[1] = {"angle", "pad"}
  /\ kwargs[1].angle = 0 - 1 /\ kwargs[1].pad = 0 - 1
  /\ validation.errors = <<Message("pad")>>

\* A call with a pad of None and a radius of -2: TypeError, nothing returned.
C26_WitnessRaise ==
  /\ validation.called /\ validation.raised = "TypeError"
  /\ DOMAIN kwargs[1] = {"radius", "pad"}
  /\ kwargs[1].pad = NoneV /\ kwargs[1].radius = 0 - 2

====
